---- MODULE Spec2Model ----
(***************************************************************************)
(* A model of pysessions: the session request pipeline (cache decorator     *)
(* around rate-limit decorator around the transport), the response          *)
(* serialisation used by the cache, the in-process rate-limit algorithms,   *)
(* the sorted-set sliding-window limiter and the cache back-ends' expiry.   *)
(*                                                                         *)
(* Time is discrete.  Wall-clock reads never go backwards.                 *)
(***************************************************************************)
EXTENDS Integers, Sequences, FiniteSets, TLC

VARIABLES
    \* ---- session pipeline (sessions/base.py, session.py, asyncsession.py)
    kind,           \* "sync" (Session) or "async" (AsyncSession)
    use_cache,      \* self._use_cache
    use_ratelimit,  \* self._use_ratelimit
    raise_errors,   \* self._raise_errors / config.raise_errors
    rl_raise,       \* limiter option raise_errors
    cacheStore,     \* url -> serialized response, or NoEntry
    pc,             \* position of the request in flight
    req,            \* the request in flight
    resp,           \* the response being built / returned
    events,         \* what the request in flight has done so far, in order
    first,          \* url -> the response object whose store made the entry
    \* ---- rate limiters (sessions/ratelimit.py, sessions/backends.py)
    cfg,            \* the constructor arguments (type, capacity, second)
    limiter,        \* the limiter instance: its slots, or its sorted set
    now,            \* the wall clock, in ticks
    th,             \* caller -> position inside increment, and its locals
    sem,            \* aratelimit.semaphore: free permits
    admitted,       \* times of the admissions younger than Horizon
    last,           \* the last wrapper call: instance before it, outcome
    burst,          \* the admissions of the current instant
    window_starts,  \* the window starts younger than Horizon
    \* ---- cache back ends (sessions/backends/memory_pool.py, sessions/cache)
    backend,        \* "memory", "sqlite" or "redis"
    cache_timeout,  \* options.cache_timeout, in ticks
    check_frequency,\* options.check_frequency, in ticks
    renew,          \* config.renew_cache_on_get
    entries,        \* key -> stored entry, or AbsentEntry
    time_to_check,  \* MemoryPool._time_to_check
    got,            \* the last get: key, time, entry found, entry left, result
    \* ---- the two namespaces of one back end (cache and rate-limit entries)
    pool_items,     \* the entries held: (namespace, key) pairs
    cleared,        \* the last clear: who, the entries before it, raised or not
    \* ---- one request from the transport's outcome to the callbacks
    config,         \* SessionConfig: raise_errors, return_callbacks, run_callbacks_on_error
    session,        \* the session built: kind, raise_errors as passed, _raise_errors
    call,           \* the last request: outcome, callbacks, what came back
    \* ---- the SQL connection pool
    pools,          \* thread -> its SQLitePool: queue, n_connections, max_connections
    n_connections,  \* SQLiteConnectionPool.n_connections: thread -> count
    connections,    \* the connections created, in order: owning thread, state
    blocked,        \* the threads stuck in Queue.put
    handed,         \* the last get_connection: thread, connection or exception
    \* ---- the registry of pools
    registry,       \* back end -> the manager's pools dict: (options, pool) pairs
    made,           \* every pool object constructed, in order: back end, options
    returns,        \* what from_options has returned: back end, options, pool
    \* ---- the fan-out call requests(urls, method)
    fan,            \* the call: class, urls, methods, tasks, results
    \* ---- the User-Agent header of one request
    ua,             \* the session's user-agent settings and its last request's headers
    \* ---- one store used by two sessions' caches
    shared,         \* two caches on one store: the entry, the clock, the last operation
    \* ---- enumerating one back end's entries
    listed,         \* the last keys() / values() / items() call and what it returned
    \* ---- a session's hold on the SQL pool
    owner,          \* the session on the SQL back end: its thread, its two connections, where it is
    \* ---- concurrent access to the in-memory pool
    sweeper,        \* threads inside MemoryPool.__getitem__, and the last two sweeps
    \* ---- the shared in-memory mapping under concurrent operations
    mapping,        \* MemoryPool._cache shared by threads: the dict, the lock, each thread's place
    \* ---- commit and rollback of the SQLite cache
    tx,             \* the SQLite cache's connection: committed rows, the rows its open transaction sees, the last operation
    \* ---- Protected resources (backends/resources/protected)
    protected,      \* Protected resource: class lock holder and each thread's position
    \* ---- A headers mapping reused across calls (session.py 197-200, asyncsession.py 153-156)
    reuse,          \* one headers mapping of the caller passed to successive requests
    \* ---- request and requests mixed on one Session (session.py 220-230, 258-260)
    mix,            \* one Session receiving request and requests calls in one window
    \* ---- Waiting for admission (ratelimit/abstract.py 194-208, backends.py 113-124)
    wait            \* callers of increment competing for one key, times kept as ages

sessVars == <<kind, use_cache, use_ratelimit, raise_errors, rl_raise,
              cacheStore, pc, req, resp, events, first>>

limVars == <<cfg, limiter, now, th, sem, admitted, last, burst, window_starts>>

ttlVars == <<backend, cache_timeout, check_frequency, renew, entries, time_to_check, got>>

nsVars == <<pool_items, cleared>>

cbVars == <<config, session, call>>

sqlVars == <<pools, n_connections, connections, blocked, handed>>

regVars == <<registry, made, returns>>

\* the parts added to the first seven
fanVars == <<fan>>
uaVars == <<ua>>
sharedVars == <<shared>>
listedVars == <<listed>>
ownerVars == <<owner>>
sweeperVars == <<sweeper>>
mappingVars == <<mapping>>
txVars == <<tx>>
protectedVars == <<protected>>
reuseVars == <<reuse>>
mixVars == <<mix>>
waitVars == <<wait>>
extVars == <<fanVars, uaVars, sharedVars, listedVars, ownerVars, sweeperVars, mappingVars, txVars, protectedVars, reuseVars, mixVars, waitVars>>

vars == <<sessVars, limVars, ttlVars, nsVars, cbVars, sqlVars, regVars, extVars>>

\* what the actions of one part leave alone
notSess == <<limVars, ttlVars, nsVars, cbVars, sqlVars, regVars, extVars>>
notLim == <<sessVars, ttlVars, nsVars, cbVars, sqlVars, regVars, extVars>>
notTtl == <<sessVars, limVars, nsVars, cbVars, sqlVars, regVars, extVars>>
notNs == <<sessVars, limVars, cache_timeout, check_frequency, renew, entries,
           time_to_check, got, cbVars, sqlVars, regVars, extVars>>
notCb == <<sessVars, limVars, ttlVars, nsVars, sqlVars, regVars, extVars>>
notSql == <<sessVars, limVars, ttlVars, nsVars, cbVars, regVars, extVars>>
notReg == <<sessVars, limVars, ttlVars, nsVars, cbVars, sqlVars, extVars>>
oldVars == <<sessVars, limVars, ttlVars, nsVars, cbVars, sqlVars, regVars>>
notFan == <<oldVars, uaVars, sharedVars, listedVars, ownerVars, sweeperVars, mappingVars, txVars, protectedVars, reuseVars, mixVars, waitVars>>
notUa == <<oldVars, fanVars, sharedVars, listedVars, ownerVars, sweeperVars, mappingVars, txVars, protectedVars, reuseVars, mixVars, waitVars>>
notShared == <<oldVars, fanVars, uaVars, listedVars, ownerVars, sweeperVars, mappingVars, txVars, protectedVars, reuseVars, mixVars, waitVars>>
notListed == <<oldVars, fanVars, uaVars, sharedVars, ownerVars, sweeperVars, mappingVars, txVars, protectedVars, reuseVars, mixVars, waitVars>>
notOwner == <<oldVars, fanVars, uaVars, sharedVars, listedVars, sweeperVars, mappingVars, txVars, protectedVars, reuseVars, mixVars, waitVars>>
notSweeper == <<oldVars, fanVars, uaVars, sharedVars, listedVars, ownerVars, mappingVars, txVars, protectedVars, reuseVars, mixVars, waitVars>>
notMapping == <<oldVars, fanVars, uaVars, sharedVars, listedVars, ownerVars, sweeperVars, txVars, protectedVars, reuseVars, mixVars, waitVars>>
notTx == <<oldVars, fanVars, uaVars, sharedVars, listedVars, ownerVars, sweeperVars, mappingVars, protectedVars, reuseVars, mixVars, waitVars>>
notProtected == <<oldVars, fanVars, uaVars, sharedVars, listedVars, ownerVars, sweeperVars, mappingVars, txVars, reuseVars, mixVars, waitVars>>
notReuse == <<oldVars, fanVars, uaVars, sharedVars, listedVars, ownerVars, sweeperVars, mappingVars, txVars, protectedVars, mixVars, waitVars>>
notMix == <<oldVars, fanVars, uaVars, sharedVars, listedVars, ownerVars, sweeperVars, mappingVars, txVars, protectedVars, reuseVars, waitVars>>
notWait == <<oldVars, fanVars, uaVars, sharedVars, listedVars, ownerVars, sweeperVars, mappingVars, txVars, protectedVars, reuseVars, mixVars>>
notTtlSweeper == <<sessVars, limVars, nsVars, cbVars, sqlVars, regVars,
                   fanVars, uaVars, sharedVars, listedVars, ownerVars, mappingVars,
                   txVars, protectedVars, reuseVars, mixVars, waitVars>>
notOwnerExt == <<fanVars, uaVars, sharedVars, listedVars, sweeperVars, mappingVars, txVars,
                 protectedVars, reuseVars, mixVars, waitVars>>

-----------------------------------------------------------------------------
(* Bounds *)

MaxSleeps == 1      \* denied ok() calls followed per request
MaxCapacity == 2    \* largest capacity / limit / tokens a limiter is built with
MaxSecond == 2      \* largest second constructor argument (window, leak_rate)
TicksPerSecond == 2 \* clock resolution: one tick is 1/TicksPerSecond seconds
MaxTime == 7        \* the clock stops at this tick
MaxTimeout == 2     \* largest cache_timeout and check_frequency, in ticks
MaxCallbacks == 2   \* longest callbacks tuple passed to request
MaxConnections == 1 \* largest max_connections an SQL pool is built with
MaxCreated == 2     \* SQL connections created in one run
MaxPools == 3       \* pool objects constructed in one run
MaxUrls == 2        \* longest urls sequence passed to requests
MaxOpened == 4      \* SQL connections created by the sessions of one run
MaxSweepTime == 3   \* the clock stops at this tick when threads race for the sweep

-----------------------------------------------------------------------------
(* Values *)

Urls == {"u1", "u2"}

\* bytes are sequences of 0..255; None is a sentinel of the same shape
NoneBytes == <<-1>>
\* the bodies the transport may deliver: empty, UTF-8 "h" + e-acute, and a
\* body that is not UTF-8 (the first byte of a JPEG)
Bodies == { <<>>, <<104, 195, 169>>, <<255>> }

NoneStr == <<-1>>
DecodeError == <<-2>>

\* bytes.decode("utf-8") on one- and two-byte sequences
RECURSIVE Utf8Decode(_)
Utf8Decode(b) ==
    IF b = <<>> THEN <<>>
    ELSE IF b[1] < 128
         THEN LET rest == Utf8Decode(Tail(b))
              IN IF rest = DecodeError THEN DecodeError ELSE <<b[1]>> \o rest
    ELSE IF b[1] >= 194 /\ b[1] <= 223 /\ Len(b) >= 2 /\ b[2] >= 128 /\ b[2] <= 191
         THEN LET rest == Utf8Decode(Tail(Tail(b)))
              IN IF rest = DecodeError THEN DecodeError
                 ELSE <<(b[1] - 192) * 64 + (b[2] - 128)>> \o rest
    ELSE DecodeError

\* bytes(text, "utf-8") for code points below 0x800
RECURSIVE Utf8Encode(_)
Utf8Encode(s) ==
    IF s = <<>> THEN <<>>
    ELSE IF s[1] < 128 THEN <<s[1]>> \o Utf8Encode(Tail(s))
    ELSE <<192 + (s[1] \div 64), 128 + (s[1] % 64)>> \o Utf8Encode(Tail(s))

\* headers: a multi-map, a sequence of <<key, value>>; None is a sentinel
NoneHeaders == << <<"None", 0>> >>
HeaderSets == { << <<"a", 1>> >>, << <<"a", 1>>, <<"a", 2>> >> }

\* {str(k): v for k, v in headers.items()}: the last value of a key wins,
\* the key keeps the place of its first occurrence
RECURSIVE DictOf(_)
DictOf(h) ==
    IF h = <<>> THEN <<>>
    ELSE LET init == DictOf(SubSeq(h, 1, Len(h) - 1))
             e == h[Len(h)]
         IN IF \E i \in 1..Len(init) : init[i][1] = e[1]
            THEN [i \in 1..Len(init) |-> IF init[i][1] = e[1] THEN e ELSE init[i]]
            ELSE Append(init, e)

NoneElapsed == -1
NoError == "none"
NoneCharset == "None"

Statuses == {199, 200, 299, 404}

\* the fields of objects.Response the pipeline reads or converts
MkResponse(status, ok, content, headers, charset, elapsed, errors, cached) ==
    [status |-> status, ok |-> ok, content |-> content, headers |-> headers,
     charset |-> charset, elapsed |-> elapsed, errors |-> errors,
     is_cached |-> cached, reason |-> "None"]

\* the reason phrase that goes with a status; "" for a status without one
ReasonPhrase(status) ==
    CASE status = 200 -> "OK"
      [] status = 404 -> "Not Found"
      [] OTHER -> ""
WithReason(r, reason) == [r EXCEPT !.reason = reason]
\* reason_phrase or None
OrNoneReason(reason) == IF reason = "" THEN "None" ELSE reason

\* ok: True, False or None
OkOf(b) == IF b THEN "True" ELSE "False"

NoResponse == MkResponse(0, "None", NoneBytes, NoneHeaders, NoneCharset, NoneElapsed, NoError, FALSE)

\* what the transport hands back on success
TransportResponses ==
    { [status |-> s, content |-> b, headers |-> h]
        : s \in Statuses, b \in Bodies, h \in HeaderSets }

-----------------------------------------------------------------------------
(* objects.Response.serialize / deserialize and the cache's wrappers *)

SerializeError == [error |-> TRUE]
NoEntry == [error |-> FALSE, absent |-> TRUE]

\* Response.serialize followed by json.dumps (Cache.serialize)
Serialize(r) ==
    IF r.headers = NoneHeaders THEN SerializeError          \* headers unbound
    ELSE IF r.elapsed = NoneElapsed THEN SerializeError     \* None.total_seconds()
    ELSE IF r.content # NoneBytes /\ Utf8Decode(r.content) = DecodeError
         THEN SerializeError                                \* UnicodeDecodeError
    ELSE [error |-> FALSE, absent |-> FALSE,
          status |-> r.status, ok |-> r.ok,
          elapsed |-> r.elapsed, reason |-> r.reason,
          headers |-> DictOf(r.headers),
          content |-> IF r.content = NoneBytes THEN NoneStr ELSE Utf8Decode(r.content)]

\* json.loads followed by Response.deserialize (Cache.deserialize)
Deserialize(d) ==
    WithReason(
        MkResponse(d.status, d.ok,
                   IF d.content = NoneStr THEN NoneBytes ELSE Utf8Encode(d.content),
                   d.headers, NoneCharset, d.elapsed, NoError, TRUE),
        d.reason)

\* str(response.status_code).startswith("2")
RECURSIVE LeadingDigit(_)
LeadingDigit(n) == IF n < 10 THEN n ELSE LeadingDigit(n \div 10)

StartsWith2Any(status) == TRUE
StartsWith2(status) == LeadingDigit(status) = 2

-----------------------------------------------------------------------------
(* Rate limiters: values *)

\* ratelimit._TYPES of sessions/ratelimit.py (GCRA left out), and the two
\* sorted-set limiters of sessions/backends.py
InProcessTypes == {"tokenbucket", "leakybucket", "slidingwindow", "fixedwindow"}
SortedSetTypes == {"backends.ratelimit", "backends.aratelimit"}
\* the limiters that call themselves sliding-window
SlidingTypes == {"slidingwindow"} \cup SortedSetTypes

Callers == {1, 2}
NoLocals == [pc |-> "idle", edge |-> 0, wake |-> 0]
NoLast == [called |-> FALSE]
NoBurst == [at |-> 0, from_empty |-> FALSE, n |-> 0]

\* no limiter under study
LimParked ==
    /\ cfg = [type |-> "none", capacity |-> 0, second |-> 0, callers |-> {}]
    /\ limiter = [type |-> "none"]
    /\ now = 0
    /\ th = [c \in Callers |-> NoLocals]
    /\ sem = 0
    /\ admitted = <<>>
    /\ last = NoLast
    /\ burst = NoBurst
    /\ window_starts = <<>>

-----------------------------------------------------------------------------
(* Cache back ends: values *)

\* MemoryPool.key / options.key, and Cache._parse_key(url)
PoolKey == "cache"
ParseKey(url) == "cache:" \o url \o ":cache"
CacheKeys == {PoolKey, ParseKey("u1")}
AbsentEntry == [absent |-> TRUE]
Absent == "None"
NoGet == [called |-> FALSE]

\* no cache back end under study
TtlParked ==
    /\ backend = "none"
    /\ cache_timeout = 0
    /\ check_frequency = 0
    /\ renew = FALSE
    /\ entries = [k \in CacheKeys |-> AbsentEntry]
    /\ time_to_check = 0
    /\ got = NoGet

\* no clear under study
NoClear == [called |-> FALSE]
NsParked ==
    /\ pool_items = {}
    /\ cleared = NoClear

\* PackageConfig.__init__: the defaults of the three flags
ConfigDefaults ==
    [raise_errors |-> TRUE, return_callbacks |-> FALSE,
     run_callbacks_on_error |-> FALSE]
NoSession == [kind |-> "none"]
NoCall == [called |-> FALSE]
CbParked ==
    /\ config = ConfigDefaults
    /\ session = NoSession
    /\ call = NoCall

Threads == {1, 2}
\* SQLitePool.__init__: an empty Queue(max_connections), n_connections = 0
NewPool(max_connections) ==
    [queue |-> <<>>, n_connections |-> 0, max_connections |-> max_connections]
NoHand == [called |-> FALSE]
SqlParked ==
    /\ pools = [t \in Threads |-> NewPool(1)]
    /\ n_connections = [t \in Threads |-> 0]
    /\ connections = <<>>
    /\ blocked = {}
    /\ handed = NoHand

\* ConnectionPool's three managers, their dicts empty
RegParked ==
    /\ registry = [b \in {"memory", "sqlite", "redis"} |-> {}]
    /\ made = <<>>
    /\ returns = {}

\* no fan-out call under study
NoFan == [pc |-> "none"]
FanParked == fan = NoFan

NoUa == [pc |-> "none"]
UaParked == ua = NoUa

NoShared == [pc |-> "none"]
SharedParked == shared = NoShared

NoListed == [called |-> FALSE]
ListedParked == listed = NoListed

NoOwner == [pc |-> "none"]
OwnerParked == owner = NoOwner

NoSweeper == [th |-> [t \in Threads |-> [pc |-> "idle", now |-> 0]], swept |-> <<>>]
SweeperParked == sweeper = NoSweeper

NoMapping == [dict |-> {}, lock |-> 0, th |-> [t \in Threads |-> [pc |-> "idle", lost |-> {}]]]
MappingParked == mapping = NoMapping

NoTx == [pc |-> "none"]
TxParked == tx = NoTx

NoProtected == [lock |-> 0, value |-> <<>>,
                th |-> [t \in Threads |-> [pc |-> "idle", inside |-> FALSE, via |-> "none", op |-> "none"]]]
ProtectedParked == protected = NoProtected

NoReuse == [pc |-> "none"]
ReuseParked == reuse = NoReuse

NoMix == [pc |-> "none"]
MixParked == mix = NoMix

NoWait == [members |-> <<>>, th |-> [t \in Threads |-> [pc |-> "idle", left |-> 0, got |-> 0]]]
WaitParked == wait = NoWait

ExtParked == FanParked /\ UaParked /\ SharedParked /\ ListedParked /\ OwnerParked /\ SweeperParked /\ MappingParked /\ TxParked /\ ProtectedParked /\ ReuseParked /\ MixParked /\ WaitParked

-----------------------------------------------------------------------------
(* The session *)

\* x or None
OrNoneBytes(b) == IF b = <<>> THEN NoneBytes ELSE b
OrNoneHeaders(h) == IF h = <<>> THEN NoneHeaders ELSE h

\* Session._retrieve_response / AsyncSession._retrieve_response followed by
\* _run_callbacks' response.set_cache(is_cache): r is a transport response
RetrieveTransport(k, r, elapsed) ==
    IF k = "sync"
    THEN WithReason(
             MkResponse(r.status, OkOf(r.status < 400), OrNoneBytes(r.content),
                        OrNoneHeaders(r.headers), NoneCharset, elapsed, NoError, FALSE),
             OrNoneReason(ReasonPhrase(r.status)))
    ELSE WithReason(
             MkResponse(r.status, OkOf(r.status < 400), r.content, r.headers,
                        "utf-8", elapsed, NoError, FALSE),
             ReasonPhrase(r.status))

\* the same on a cache hit: r is the deserialized Response
RetrieveCached(k, r) ==
    IF k = "sync"
    THEN WithReason(
             MkResponse(r.status, OkOf(r.status < 400), OrNoneBytes(r.content),
                        OrNoneHeaders(r.headers), NoneCharset, r.elapsed, NoError, TRUE),
             OrNoneReason(r.reason))
    ELSE WithReason(
             MkResponse(r.status, r.ok, r.content, r.headers, r.charset, r.elapsed,
                        NoError, TRUE),
             r.reason)

\* the responses request synthesizes from a transport exception; the async
\* session passes no ok and content=str(e), here the empty text
TimeoutResponse(k) ==
    WithReason(
        MkResponse(408, IF k = "sync" THEN "False" ELSE "None",
                   IF k = "sync" THEN NoneBytes ELSE <<>>, NoneHeaders,
                   NoneCharset, NoneElapsed, "timeout", FALSE),
        IF k = "sync" THEN "Request Timeout" ELSE "TimeoutError")
ErrorResponse(k, status, e) ==
    WithReason(
        MkResponse(status, IF k = "sync" THEN "False" ELSE "None",
                   IF k = "sync" THEN NoneBytes ELSE <<>>, NoneHeaders,
                   NoneCharset, NoneElapsed, "exception", FALSE),
        IF k = "sync" THEN "Internal Server Error"
        ELSE IF e = "other" THEN "Exception" ELSE "ClientError")

\* what request does with the synthesized response: the sync session hands
\* it to _retrieve_response, which builds a new Response from the fields it
\* lists (errors is not one of them); the async session hands it to
\* _run_callbacks as it is
RetrieveSynthesizedKept(k, r) == r
RetrieveSynthesized(k, r) ==
    IF k = "sync"
    THEN WithReason(
             MkResponse(r.status, OkOf(r.status < 400), r.content, r.headers,
                        NoneCharset, r.elapsed, NoError, FALSE),
             OrNoneReason(r.reason))
    ELSE r

\* the exceptions the transport call may end in: a timeout, a client error
\* raised before the response exists, a client error raised while the body
\* of a response with status s is read, any other exception
Failures ==
    {[e |-> "timeout", s |-> 0], [e |-> "client", s |-> 0], [e |-> "other", s |-> 0]}
    \cup {[e |-> "client_body", s |-> s] : s \in {200, 404}}

\* the decorators on request, outermost first
DecoratorOrderSwapped == <<"ratelimit", "cache">>
DecoratorOrder == <<"cache", "ratelimit">>

NoRequest == [url |-> "u1", cache |-> FALSE, ratelimit |-> FALSE, sleeps |-> 0]

Flag == {"unset", "true", "false"}
Effective(arg, default) == IF arg = "unset" THEN default ELSE arg = "true"

Has(e) == \E i \in 1..Len(events) : events[i] = e
Index(e) == CHOOSE i \in 1..Len(events) : events[i] = e
Count(e) == Cardinality({i \in 1..Len(events) : events[i] = e})

\* where control goes when the wrapper at place i of DecoratorOrder calls on
StageAfter(i) == IF i < Len(DecoratorOrder) THEN DecoratorOrder[i + 1] ELSE "transport"
PlaceOf(d) == CHOOSE i \in 1..Len(DecoratorOrder) : DecoratorOrder[i] = d

SessInit ==
    /\ kind \in {"sync", "async"}
    /\ use_cache \in BOOLEAN
    /\ use_ratelimit \in BOOLEAN
    /\ raise_errors \in BOOLEAN
    /\ rl_raise \in BOOLEAN
    /\ cacheStore = [u \in Urls |-> NoEntry]
    /\ pc = "idle"
    /\ req = NoRequest
    /\ resp = NoResponse
    /\ events = <<>>
    /\ first = [u \in Urls |-> NoResponse]
    /\ LimParked
    /\ TtlParked
    /\ NsParked
    /\ CbParked
    /\ SqlParked
    /\ RegParked
    /\ ExtParked

\* a call of request(url, method, cache=..., ratelimit=...)
StartRequest(u, c, r) ==
    /\ pc = "idle"
    /\ req' = [url |-> u, cache |-> Effective(c, use_cache),
               ratelimit |-> Effective(r, use_ratelimit), sleeps |-> 0]
    /\ resp' = NoResponse
    /\ events' = <<>>
    /\ pc' = DecoratorOrder[1]
    /\ UNCHANGED notSess
    /\ UNCHANGED <<kind, use_cache, use_ratelimit, raise_errors, rl_raise, cacheStore, first>>

\* _cache_decorator, before func: the lookup and the hit
CacheLookupHit ==
    /\ pc = "cache"
    /\ req.cache
    /\ cacheStore[req.url] # NoEntry
    /\ resp' = RetrieveCached(kind, Deserialize(cacheStore[req.url]))
    /\ events' = events \o <<"lookup", "hit">>
    /\ pc' = "done"
    /\ UNCHANGED notSess
    /\ UNCHANGED <<kind, use_cache, use_ratelimit, raise_errors, rl_raise, cacheStore, req, first>>

CacheLookupMiss ==
    /\ pc = "cache"
    /\ req.cache
    /\ cacheStore[req.url] = NoEntry
    /\ events' = Append(events, "lookup")
    /\ pc' = StageAfter(PlaceOf("cache"))
    /\ UNCHANGED notSess
    /\ UNCHANGED <<kind, use_cache, use_ratelimit, raise_errors, rl_raise, cacheStore, req, resp, first>>

CacheSkip ==
    /\ pc = "cache"
    /\ ~req.cache
    /\ pc' = StageAfter(PlaceOf("cache"))
    /\ UNCHANGED notSess
    /\ UNCHANGED <<kind, use_cache, use_ratelimit, raise_errors, rl_raise, cacheStore, req, resp, events, first>>

\* _ratelimit_decorator: increment / increment_async; ok(key) is the
\* limiter's decision
GateAdmit ==
    /\ pc = "ratelimit"
    /\ req.ratelimit
    /\ events' = Append(events, "admit")
    /\ pc' = StageAfter(PlaceOf("ratelimit"))
    /\ UNCHANGED notSess
    /\ UNCHANGED <<kind, use_cache, use_ratelimit, raise_errors, rl_raise, cacheStore, req, resp, first>>

GateDenySleep ==
    /\ pc = "ratelimit"
    /\ req.ratelimit
    /\ ~rl_raise
    /\ req.sleeps < MaxSleeps
    /\ req' = [req EXCEPT !.sleeps = @ + 1]
    /\ events' = Append(events, "sleep")
    /\ UNCHANGED notSess
    /\ UNCHANGED <<kind, use_cache, use_ratelimit, raise_errors, rl_raise, cacheStore, pc, resp, first>>

\* where control goes when increment raises: neither wrapper has a
\* try/except, so out of request
InterruptedCaught == StageAfter(PlaceOf("ratelimit"))
Interrupted == "raised"

GateDenyRaise ==
    /\ pc = "ratelimit"
    /\ req.ratelimit
    /\ rl_raise
    /\ events' = Append(events, "denied")
    /\ pc' = Interrupted
    /\ UNCHANGED notSess
    /\ UNCHANGED <<kind, use_cache, use_ratelimit, raise_errors, rl_raise, cacheStore, req, resp, first>>

GateSkip ==
    /\ pc = "ratelimit"
    /\ ~req.ratelimit
    /\ pc' = StageAfter(PlaceOf("ratelimit"))
    /\ UNCHANGED notSess
    /\ UNCHANGED <<kind, use_cache, use_ratelimit, raise_errors, rl_raise, cacheStore, req, resp, events, first>>

\* where the innermost request returns to: the cache wrapper's store
AfterTransport == "store"

\* Session.request / AsyncSession.request: the transport call succeeds
TransportOk(r, el) ==
    /\ pc = "transport"
    /\ resp' = RetrieveTransport(kind, r, el)
    /\ events' = Append(events, "transport")
    /\ pc' = AfterTransport
    /\ UNCHANGED notSess
    /\ UNCHANGED <<kind, use_cache, use_ratelimit, raise_errors, rl_raise, cacheStore, req, first>>

\* the transport raises: the except clauses of Session.request and of
\* AsyncSession.request.  The sync session knows no body-read error of its
\* own (the body is read inside the transport call); the async session's
\* ClientError clause reads the local `response`, unbound when the error
\* came before the response existed
TransportFail(f) ==
    /\ pc = "transport"
    /\ kind = "sync" => f.e # "client_body"
    /\ events' = Append(events, "transport")
    /\ IF raise_errors \/ (kind = "async" /\ f.e = "client")
       THEN pc' = "raised" /\ resp' = resp
       ELSE /\ pc' = AfterTransport
            /\ resp' = RetrieveSynthesized(kind,
                           IF f.e = "timeout" THEN TimeoutResponse(kind)
                           ELSE IF kind = "async" /\ f.e = "client_body"
                                THEN ErrorResponse(kind, f.s, f.e)
                           ELSE ErrorResponse(kind, 500, f.e))
    /\ UNCHANGED notSess
    /\ UNCHANGED <<kind, use_cache, use_ratelimit, raise_errors, rl_raise, cacheStore, req, first>>

\* _cache_decorator, after func: self._cache[url] = response
CacheStore ==
    /\ pc = "store"
    /\ req.cache
    /\ StartsWith2(resp.status)
    /\ IF Serialize(resp) = SerializeError
       THEN /\ pc' = "raised"
            /\ events' = Append(events, "store_raised")
            /\ UNCHANGED <<cacheStore, first>>
       ELSE /\ pc' = "done"
            /\ events' = Append(events, "store")
            /\ cacheStore' = [cacheStore EXCEPT ![req.url] = Serialize(resp)]
            /\ first' = [first EXCEPT ![req.url] = resp]
    /\ UNCHANGED notSess
    /\ UNCHANGED <<kind, use_cache, use_ratelimit, raise_errors, rl_raise, req, resp>>

CacheNoStore ==
    /\ pc = "store"
    /\ ~(req.cache /\ StartsWith2(resp.status))
    /\ pc' = "done"
    /\ UNCHANGED notSess
    /\ UNCHANGED <<kind, use_cache, use_ratelimit, raise_errors, rl_raise, cacheStore, req, resp, events, first>>

\* request has returned or raised; the session is ready for the next call
Return ==
    /\ pc \in {"done", "raised"}
    /\ pc' = "idle"
    /\ req' = NoRequest
    /\ resp' = NoResponse
    /\ events' = <<>>
    /\ UNCHANGED notSess
    /\ UNCHANGED <<kind, use_cache, use_ratelimit, raise_errors, rl_raise, cacheStore, first>>

SessNext ==
    \/ \E u \in Urls, c \in Flag, r \in Flag : StartRequest(u, c, r)
    \/ CacheLookupHit
    \/ CacheLookupMiss
    \/ CacheSkip
    \/ GateAdmit
    \/ GateDenySleep
    \/ GateDenyRaise
    \/ GateSkip
    \/ \E r \in TransportResponses, el \in {7} : TransportOk(r, el)
    \/ \E f \in Failures : TransportFail(f)
    \/ CacheStore
    \/ CacheNoStore
    \/ Return

SpecSession == SessInit /\ [][SessNext]_vars

-----------------------------------------------------------------------------
(* Claims about the session pipeline, checked under SpecSession *)

Success == 200..299
BothEffective == req.cache /\ req.ratelimit

C8_CacheRoundTrip ==
    /\ (/\ req.cache
        /\ Has("transport")
        /\ pc \in {"done", "raised"}
        /\ resp.status \in Success
        /\ resp.errors = NoError)
       => (/\ pc = "done"
           /\ resp.is_cached = FALSE
           /\ cacheStore[req.url] = Serialize(resp))
    /\ (pc = "done" /\ Has("hit"))
       => (/\ ~Has("transport")
           /\ resp = [Deserialize(Serialize(first[req.url])) EXCEPT !.is_cached = TRUE])

C13_DeniedRaises ==
    /\ Has("denied") =>
          /\ events[Len(events)] = "denied"
          /\ ~Has("sleep")
          /\ ~Has("transport")
          /\ ~Has("store")
          /\ pc = "raised"
          /\ resp = NoResponse
    /\ (rl_raise /\ pc # "idle") => ~Has("sleep")

\* a request with the cache effective missed the cache, was denied by the
\* raising limiter and left through the exception
C13_Witness ==
    /\ rl_raise
    /\ pc = "raised"
    /\ req.cache
    /\ events = <<"lookup", "denied">>

-----------------------------------------------------------------------------
(* The in-process limiters of sessions/ratelimit.py *)
(*                                                                         *)
(* Times are in ticks.  The code's float levels are kept as exact integers *)
(* in scaled units: the token bucket in units of 1/(window*TicksPerSecond) *)
(* token, the leaky bucket in units of 1/TicksPerSecond call.              *)

Min(a, b) == IF a < b THEN a ELSE b
Max(a, b) == IF a > b THEN a ELSE b

\* one token, a full bucket (TokenBucketRatelimiter)
OneToken(l) == l.window * TicksPerSecond
FullBucket(l) == l.tokens * OneToken(l)
\* one call's water, a full bucket (LeakyBucketRatelimiter)
OneCall == TicksPerSecond
FullWater(l) == l.capacity * OneCall
\* int(_time())
IntTime(t) == t \div TicksPerSecond

\* ratelimit.__new__(type, *args): instance.__init__(capacity, second)
NewLimiter(type, capacity, second, t) ==
    CASE type = "tokenbucket" ->
           [type |-> type, tokens |-> capacity, window |-> second,
            bucket |-> capacity * second * TicksPerSecond, last_check |-> t]
      [] type = "leakybucket" ->
           [type |-> type, capacity |-> capacity, leak_rate |-> second,
            water |-> 0, last_checked |-> t]
      [] type = "slidingwindow" ->
           [type |-> type, capacity |-> capacity, window |-> second * TicksPerSecond,
            cur_time |-> t, pre_count |-> capacity, cur_count |-> 0]
      [] type = "fixedwindow" ->
           [type |-> type, capacity |-> capacity,
            current_time |-> IntTime(t), allowance |-> capacity]
      [] type \in SortedSetTypes ->
           [type |-> type, limit |-> capacity, window |-> second * TicksPerSecond,
            members |-> {}]

\* TokenBucketRatelimiter.wrapper: the refill, the test, the take
TokenBucketRefill(l, t) ==
    Min(FullBucket(l), l.bucket + (t - l.last_check) * l.tokens)
TokenBucketDeniesEmpty(l, bucket) == bucket <= 0
TokenBucketDenies(l, bucket) == bucket < OneToken(l)
TokenBucketCall(l, t) ==
    LET refilled == TokenBucketRefill(l, t)
        denied == TokenBucketDenies(l, refilled)
    IN  [ok |-> ~denied,
         limiter |-> [l EXCEPT !.last_check = t,
                               !.bucket = IF denied THEN refilled
                                          ELSE refilled - OneToken(l)]]

\* LeakyBucketRatelimiter.wrapper: the leak, the test, the pour
LeakyBucketLeak(l, t) ==
    Max(0, l.water - (t - l.last_checked) * l.leak_rate)
LeakyBucketAdmitsFull(l, water) == water <= FullWater(l)
LeakyBucketAdmits(l, water) == water < FullWater(l)
LeakyBucketCall(l, t) ==
    LET leaked == LeakyBucketLeak(l, t)
        ok == LeakyBucketAdmits(l, leaked)
    IN  [ok |-> ok,
         limiter |-> [l EXCEPT !.last_checked = t,
                               !.water = IF ok THEN leaked + OneCall ELSE leaked]]

\* SlidingWindowRatelimiter.wrapper: the rotation at the first clock read t,
\* the weighted count ec at the second clock read t2; ec > capacity is
\* compared after multiplying both sides by window
SlidingWindowRotate(l, t) ==
    IF t - l.cur_time > l.window
    THEN [l EXCEPT !.cur_time = t, !.pre_count = l.cur_count, !.cur_count = 0]
    ELSE l
SlidingWindowDenies(l, t2) ==
    l.pre_count * (l.window - (t2 - l.cur_time)) + l.cur_count * l.window
        > l.capacity * l.window
SlidingWindowCall(l, t, t2) ==
    LET r == SlidingWindowRotate(l, t)
        denied == SlidingWindowDenies(r, t2)
    IN  [ok |-> ~denied,
         limiter |-> IF denied THEN r ELSE [r EXCEPT !.cur_count = @ + 1]]

\* FixedWindowRatelimiter.wrapper: the reset when the integer second has
\* changed, the test, the take
FixedWindowReset(l, t) ==
    IF IntTime(t) # l.current_time
    THEN [l EXCEPT !.current_time = IntTime(t), !.allowance = l.capacity]
    ELSE l
FixedWindowCall(l, t) ==
    LET r == FixedWindowReset(l, t)
        denied == r.allowance < 1
    IN  [ok |-> ~denied,
         limiter |-> IF denied THEN r ELSE [r EXCEPT !.allowance = @ - 1]]

-----------------------------------------------------------------------------
(* The limiters as a state machine *)

\* the longest window a limiter can be configured with, in ticks
Horizon == MaxSecond * TicksPerSecond
Recent(log, t) == SelectSeq(log, LAMBDA x : x > t - Horizon)
RecentStarts(starts, t) == SelectSeq(starts, LAMBDA x : x * TicksPerSecond > t - Horizon)

\* no session under study
SessParked ==
    /\ kind = "sync"
    /\ use_cache = FALSE
    /\ use_ratelimit = FALSE
    /\ raise_errors = FALSE
    /\ rl_raise = FALSE
    /\ cacheStore = [u \in Urls |-> NoEntry]
    /\ pc = "idle"
    /\ req = NoRequest
    /\ resp = NoResponse
    /\ events = <<>>
    /\ first = [u \in Urls |-> NoResponse]

\* ratelimit(type, capacity, window) as RatelimitSession.__init__ builds it,
\* or backends.ratelimit(limit, window) / backends.aratelimit(limit, window)
\* shared by one or two callers; built at any phase of the running second
LimInitOf(types) ==
    /\ SessParked
    /\ TtlParked
    /\ NsParked
    /\ CbParked
    /\ SqlParked
    /\ RegParked
    /\ ExtParked
    /\ cfg \in [type : types,
                capacity : 1..MaxCapacity,
                second : 1..MaxSecond,
                callers : {{1}, Callers}]
    /\ cfg.type \in InProcessTypes => cfg.callers = {1}
    /\ now \in IF cfg.type = "fixedwindow" THEN 0..(TicksPerSecond - 1) ELSE {0}
    /\ limiter = NewLimiter(cfg.type, cfg.capacity, cfg.second, now)
    /\ th = [c \in Callers |-> NoLocals]
    /\ sem = IF cfg.type = "backends.aratelimit" THEN cfg.capacity ELSE 0
    /\ admitted = <<>>
    /\ last = NoLast
    /\ burst = NoBurst
    /\ window_starts = IF cfg.type = "fixedwindow" THEN <<limiter.current_time>> ELSE <<>>

LimInit == LimInitOf(InProcessTypes \ SlidingTypes)
SlidingInit == LimInitOf(SlidingTypes)

\* time passes
Tick ==
    /\ now < MaxTime
    /\ now' = now + 1
    /\ admitted' = Recent(admitted, now')
    /\ window_starts' = RecentStarts(window_starts, now')
    /\ UNCHANGED <<cfg, limiter, th, sem, last, burst>>
    /\ UNCHANGED notLim

\* the bookkeeping of a wrapper call at time t with result res
Commit(res, t) ==
    /\ limiter' = res.limiter
    /\ admitted' = Recent(IF res.ok THEN Append(admitted, t) ELSE admitted, t)
    /\ last' = [called |-> TRUE, at |-> t, before |-> limiter, ok |-> res.ok]

TokenBucketWrapper ==
    /\ cfg.type = "tokenbucket"
    /\ Commit(TokenBucketCall(limiter, now), now)
    /\ UNCHANGED <<cfg, now, th, sem, burst, window_starts>>
    /\ UNCHANGED notLim

LeakyBucketWrapper ==
    /\ cfg.type = "leakybucket"
    /\ LET res == LeakyBucketCall(limiter, now)
           n == IF res.ok THEN 1 ELSE 0
       IN  /\ Commit(res, now)
           /\ burst' = IF burst.at = now /\ last # NoLast
                       THEN [burst EXCEPT !.n = @ + n]
                       ELSE [at |-> now,
                             from_empty |-> LeakyBucketLeak(limiter, now) = 0,
                             n |-> n]
    /\ UNCHANGED <<cfg, now, th, sem, window_starts>>
    /\ UNCHANGED notLim

\* the wrapper reads the clock twice; d ticks pass between the reads
SlidingWindowWrapper(d) ==
    /\ cfg.type = "slidingwindow"
    /\ now + d <= MaxTime
    /\ now' = now + d
    /\ Commit(SlidingWindowCall(limiter, now, now + d), now + d)
    /\ UNCHANGED <<cfg, th, sem, burst, window_starts>>
    /\ UNCHANGED notLim

FixedWindowWrapper ==
    /\ cfg.type = "fixedwindow"
    /\ Commit(FixedWindowCall(limiter, now), now)
    /\ window_starts' = IF IntTime(now) # limiter.current_time
                        THEN RecentStarts(Append(window_starts, IntTime(now)), now)
                        ELSE window_starts
    /\ UNCHANGED <<cfg, now, th, sem, burst>>
    /\ UNCHANGED notLim

-----------------------------------------------------------------------------
(* The sorted-set limiters of sessions/backends.py: every Redis command    *)
(* is a step of its own, and callers interleave between commands           *)

\* zremrangebyscore(key, 0, edge): scores in [0, edge] go
ZRemRangeByScore(members, edge) == {m \in members : m > edge}

\* increment is entered; aratelimit takes a permit of Semaphore(limit)
EnterIncrement(c) ==
    /\ cfg.type \in SortedSetTypes
    /\ c \in cfg.callers
    /\ th[c].pc = "idle"
    /\ IF cfg.type = "backends.aratelimit"
       THEN sem > 0 /\ sem' = sem - 1
       ELSE sem' = sem
    /\ th' = [th EXCEPT ![c].pc = "ok"]
    /\ UNCHANGED <<cfg, limiter, now, admitted, last, burst, window_starts>>
    /\ UNCHANGED notLim

\* ok, first command: edge = current_timestampns - window, then the eviction
OkEvict(c) ==
    /\ th[c].pc = "ok"
    /\ LET edge == now - limiter.window
       IN  /\ limiter' = [limiter EXCEPT !.members = ZRemRangeByScore(@, edge)]
           /\ th' = [th EXCEPT ![c].pc = "zcard", ![c].edge = edge]
    /\ UNCHANGED <<cfg, now, sem, admitted, last, burst, window_starts>>
    /\ UNCHANGED notLim

\* ok, second command: count = zcard(key); count < limit leaves the loop,
\* otherwise the caller sleeps (one second in ratelimit, zero in aratelimit)
OkCount(c) ==
    /\ th[c].pc = "zcard"
    /\ LET count == Cardinality(limiter.members)
       IN  th' = [th EXCEPT ![c].pc = IF count < limiter.limit THEN "zadd" ELSE "sleep",
                            ![c].edge = 0,
                            ![c].wake = IF count < limiter.limit THEN 0
                                        ELSE IF cfg.type = "backends.ratelimit"
                                             THEN now + TicksPerSecond ELSE now]
    /\ UNCHANGED <<cfg, limiter, now, sem, admitted, last, burst, window_starts>>
    /\ UNCHANGED notLim

\* the sleep is over: ok is evaluated again
Wake(c) ==
    /\ th[c].pc = "sleep"
    /\ now >= th[c].wake
    /\ th' = [th EXCEPT ![c].pc = "ok", ![c].wake = 0]
    /\ UNCHANGED <<cfg, limiter, now, sem, admitted, last, burst, window_starts>>
    /\ UNCHANGED notLim

\* ts = current_timestampns; zadd(key, {ts: ts}).  The commands of ok took
\* time: this clock read is later than every earlier one
RecordAdmission(c) ==
    /\ th[c].pc = "zadd"
    /\ now < MaxTime
    /\ now' = now + 1
    /\ limiter' = [limiter EXCEPT !.members = @ \cup {now'}]
    /\ admitted' = Recent(Append(admitted, now'), now')
    /\ th' = [th EXCEPT ![c].pc = "idle"]
    /\ sem' = IF cfg.type = "backends.aratelimit" THEN sem + 1 ELSE sem
    /\ UNCHANGED <<cfg, last, burst, window_starts>>
    /\ UNCHANGED notLim

LimNext ==
    \/ Tick
    \/ TokenBucketWrapper
    \/ LeakyBucketWrapper
    \/ FixedWindowWrapper

SpecLimiter == LimInit /\ [][LimNext]_vars

SlidingNext ==
    \/ Tick
    \/ \E d \in 0..1 : SlidingWindowWrapper(d)
    \/ \E c \in Callers : EnterIncrement(c)
    \/ \E c \in Callers : OkEvict(c)
    \/ \E c \in Callers : OkCount(c)
    \/ \E c \in Callers : Wake(c)
    \/ \E c \in Callers : RecordAdmission(c)

SpecSliding == SlidingInit /\ [][SlidingNext]_vars

-----------------------------------------------------------------------------
(* Claims about the limiters *)

\* the admissions later than t
AdmittedSince(t) == Cardinality({i \in 1..Len(admitted) : admitted[i] > t})
\* the admissions at or after tick a and before tick b
AdmittedBetween(a, b) ==
    Cardinality({i \in 1..Len(admitted) : a <= admitted[i] /\ admitted[i] < b})

\* the weighted-counter limiter keeps the bound
SlidingCounterBound ==
    cfg.type = "slidingwindow" =>
        AdmittedSince(now - limiter.window) <= limiter.capacity

\* a sorted-set limiter with a single caller keeps the bound, and what
\* ok's eviction leaves is younger than the edge it used
SortedSetSequential ==
    (cfg.type \in SortedSetTypes /\ cfg.callers = {1}) =>
        /\ AdmittedSince(now - limiter.window) <= limiter.limit
        /\ th[1].pc = "zcard" => \A m \in limiter.members : m > th[1].edge

\* C2: for a sliding-window limiter built with (limit, window), the
\* admissions whose times fall in any interval (t - window, t] number at
\* most limit, and after eviction every stored timestamp is later than
\* now - window.
C2_SlidingWindowBound == SlidingCounterBound /\ SortedSetSequential

\* C3: with several callers inside increment on one key, check and record
\* behave as one step: under no interleaving are more than limit
\* admissions made, or recorded, within one window.
C3_AtomicAdmission ==
    cfg.type \in SortedSetTypes =>
        /\ AdmittedSince(now - limiter.window) <= limiter.limit
        /\ Cardinality({m \in limiter.members : m > now - limiter.window}) <= limiter.limit

\* C4: a fixed-window limiter built with (limit, window) admits at most
\* limit calls between a window start s and s + window, and starts a new
\* window only once now >= s + window, whatever window it was built with.
C4_FixedWindow ==
    cfg.type = "fixedwindow" =>
        /\ \A i \in 1..Len(window_starts) :
              AdmittedBetween(window_starts[i] * TicksPerSecond,
                              (window_starts[i] + cfg.second) * TicksPerSecond)
                  <= cfg.capacity
        /\ \A i \in 2..Len(window_starts) :
              window_starts[i] >= window_starts[i - 1] + cfg.second

\* C5: the token bucket holds between 0 and capacity tokens; a call is
\* admitted exactly when the refilled count is at least one token; an
\* admission takes exactly one token and a denial takes none.
C5_TokenBucket ==
    cfg.type = "tokenbucket" =>
        /\ 0 <= limiter.bucket /\ limiter.bucket <= FullBucket(limiter)
        /\ last.called =>
              LET refilled == TokenBucketRefill(last.before, last.at)
              IN  /\ last.ok <=> refilled >= OneToken(limiter)
                  /\ last.ok => limiter.bucket = refilled - OneToken(limiter)
                  /\ ~last.ok => limiter.bucket = refilled

\* a call was denied on a bucket that had refilled to a fraction of a
\* token, after earlier admissions had drained it
C5_Witness ==
    /\ cfg.type = "tokenbucket"
    /\ last.called /\ ~last.ok
    /\ 0 < limiter.bucket /\ limiter.bucket < OneToken(limiter)
    /\ Len(admitted) > 0

\* C6: the leaky bucket's water is never negative; a call is admitted
\* only when the leaked-down level is below capacity; so from an empty
\* bucket at most capacity calls are admitted at one instant.
C6_LeakyBucket ==
    cfg.type = "leakybucket" =>
        /\ limiter.water >= 0
        /\ (last.called /\ last.ok) =>
              LeakyBucketLeak(last.before, last.at) < FullWater(limiter)
        /\ burst.from_empty => burst.n <= limiter.capacity

\* starting empty, capacity calls were admitted at one instant and the
\* next call at that instant was denied
C6_Witness ==
    /\ cfg.type = "leakybucket"
    /\ burst.from_empty /\ burst.at = now
    /\ burst.n = limiter.capacity
    /\ last.called /\ ~last.ok /\ last.at = now

-----------------------------------------------------------------------------
(* The cache back ends: what get and set do to an entry's expiry *)

Backends == {"memory", "sqlite", "redis"}
Values == {"v1"}

\* an entry as stored; set_at and by record how it came to be
Entry(value, expiration, t, by) ==
    [value |-> value, expiration |-> expiration, set_at |-> t, by |-> by]

\* Cache.default / options.default: CacheData(value, time() + cache_timeout)
Default(value, t, by) == Entry(value, t + cache_timeout, t, by)

\* MemoryPool._clear_my_expired_cache(now): an entry stays when
\* expiration > now or key != self._key
ClearMyExpiredCache(es, t) ==
    [k \in CacheKeys |->
        IF es[k] # AbsentEntry /\ ~(es[k].expiration > t \/ k # PoolKey)
        THEN AbsentEntry ELSE es[k]]

\* MemoryPool.__getitem__: the sweep when due, then the lookup; a missing
\* key gets default(key) stored and returned (__missing__)
MemoryGet(k) ==
    /\ backend = "memory"
    /\ LET due == cache_timeout > 0 /\ now >= time_to_check
           swept == IF due THEN ClearMyExpiredCache(entries, now) ELSE entries
           missing == swept[k] = AbsentEntry
       IN  /\ time_to_check' = IF due THEN now + check_frequency ELSE time_to_check
           /\ entries' = IF missing
                         THEN [swept EXCEPT ![k] = Default(k, now, "missing")]
                         ELSE swept
           /\ got' = [called |-> TRUE, key |-> k, at |-> now, found |-> entries[k],
                      left |-> entries'[k],
                      result |-> IF missing THEN k ELSE swept[k].value]
    /\ UNCHANGED <<backend, cache_timeout, check_frequency, renew>>
    /\ UNCHANGED notTtl

\* MemoryPool.__setitem__
MemorySet(k, v) ==
    /\ backend = "memory"
    /\ entries' = [entries EXCEPT ![k] = Default(v, now, "set")]
    /\ UNCHANGED <<backend, cache_timeout, check_frequency, renew, time_to_check, got>>
    /\ UNCHANGED notTtl

\* cache_expiration_trigger: DELETE ... WHERE expiration < strftime('%s','now')
ExpirationTrigger(es, t) ==
    IF cache_timeout # 0
    THEN [k \in CacheKeys |->
            IF es[k] # AbsentEntry /\ es[k].expiration < IntTime(t) * TicksPerSecond
            THEN AbsentEntry ELSE es[k]]
    ELSE es

\* SQLiteCache.__getitem__: an entry past its expiration is deleted
\* (__delitem__, behind the trigger) and None returned
SqliteGet(k) ==
    /\ backend = "sqlite"
    /\ LET e == entries[k]
           expired == e # AbsentEntry /\ cache_timeout # 0 /\ e.expiration < now
       IN  /\ entries' = IF expired
                         THEN [ExpirationTrigger(entries, now) EXCEPT ![k] = AbsentEntry]
                         ELSE entries
           /\ got' = [called |-> TRUE, key |-> k, at |-> now, found |-> e,
                      left |-> entries'[k],
                      result |-> IF e = AbsentEntry \/ expired THEN Absent ELSE e.value]
    /\ UNCHANGED <<backend, cache_timeout, check_frequency, renew, time_to_check>>
    /\ UNCHANGED notTtl

\* SQLiteCache.__setitem__: expiration is 0 when cache_timeout is 0
SqliteSet(k, v) ==
    /\ backend = "sqlite"
    /\ entries' = [entries EXCEPT ![k] =
                     Entry(v, IF cache_timeout # 0 THEN now + cache_timeout ELSE 0,
                           now, "set")]
    /\ UNCHANGED <<backend, cache_timeout, check_frequency, renew, time_to_check, got>>
    /\ UNCHANGED notTtl

\* SQLiteCache.__contains__: the trigger's sweep, then the lookup
SqliteContains(k) ==
    /\ backend = "sqlite"
    /\ entries' = ExpirationTrigger(entries, now)
    /\ UNCHANGED <<backend, cache_timeout, check_frequency, renew, time_to_check, got>>
    /\ UNCHANGED notTtl

\* int(self.options.cache_timeout): whole seconds, in ticks
RedisTTL == (cache_timeout \div TicksPerSecond) * TicksPerSecond

\* the server drops a key once its time to live is over
RedisLive(e) == e # AbsentEntry /\ e.expiration > now

\* RedisCache.__getitem__: getex(key, int(cache_timeout)) when
\* config.renew_cache_on_get, which restarts the key's time to live, else
\* get(key); the server refuses a time to live of 0
RedisGet(k) ==
    /\ backend = "redis"
    /\ LET e == entries[k]
           refused == renew /\ RedisTTL = 0
       IN  /\ entries' = IF ~RedisLive(e) THEN [entries EXCEPT ![k] = AbsentEntry]
                         ELSE IF renew /\ ~refused
                              THEN [entries EXCEPT ![k].expiration = now + RedisTTL]
                         ELSE entries
           /\ got' = [called |-> TRUE, key |-> k, at |-> now, found |-> e,
                      left |-> entries'[k],
                      result |-> IF refused THEN "ResponseError"
                                 ELSE IF RedisLive(e) THEN e.value ELSE Absent]
    /\ UNCHANGED <<backend, cache_timeout, check_frequency, renew, time_to_check>>
    /\ UNCHANGED notTtl

\* RedisCache.__setitem__: setex(key, int(cache_timeout), value)
RedisSet(k, v) ==
    /\ backend = "redis"
    /\ entries' = IF RedisTTL = 0 THEN entries
                  ELSE [entries EXCEPT ![k] = Entry(v, now + RedisTTL, now, "set")]
    /\ UNCHANGED <<backend, cache_timeout, check_frequency, renew, time_to_check, got>>
    /\ UNCHANGED notTtl

\* a cache back end built with its options; check_frequency is read by the
\* memory pool only, renew_cache_on_get by the Redis cache only
TtlInit ==
    /\ SessParked
    /\ LimParked
    /\ NsParked
    /\ CbParked
    /\ SqlParked
    /\ RegParked
    /\ ExtParked
    /\ backend \in Backends
    /\ cache_timeout \in 0..MaxTimeout
    /\ check_frequency \in IF backend = "memory" THEN 0..MaxTimeout ELSE {0}
    /\ renew \in IF backend = "redis" THEN BOOLEAN ELSE {FALSE}
    /\ entries = [k \in CacheKeys |-> AbsentEntry]
    /\ time_to_check = now + check_frequency
    /\ got = NoGet

TtlNext ==
    \/ Tick
    \/ \E k \in CacheKeys : MemoryGet(k)
    \/ \E k \in CacheKeys, v \in Values : MemorySet(k, v)
    \/ \E k \in CacheKeys : SqliteGet(k)
    \/ \E k \in CacheKeys, v \in Values : SqliteSet(k, v)
    \/ \E k \in CacheKeys : SqliteContains(k)
    \/ \E k \in CacheKeys : RedisGet(k)
    \/ \E k \in CacheKeys, v \in Values : RedisSet(k, v)

SpecCacheTTL == TtlInit /\ [][TtlNext]_vars

-----------------------------------------------------------------------------
(* Claims about the cache back ends *)

\* the last get found an entry that a set had stored more than
\* cache_timeout before
GotExpired ==
    /\ got.called
    /\ cache_timeout > 0
    /\ got.found # AbsentEntry
    /\ got.found.by = "set"
    /\ got.at > got.found.set_at + cache_timeout

\* on back end b, a get later than set_time + cache_timeout returns absent
ExpiredAbsentOn(b) == (backend = b /\ GotExpired) => got.result = Absent

\* C10: on every back end, with cache_timeout > 0, get(k) at a time later
\* than set_time + cache_timeout returns absent, whether or not a sweep
\* has run since the entry expired.
C10_ExpiredNeverReturned == \A b \in Backends : ExpiredAbsentOn(b)

\* the last get was for a key with no entry, or with an entry past its
\* expiration
GotMissing ==
    /\ got.called
    /\ \/ got.found = AbsentEntry
       \/ cache_timeout > 0 /\ got.found.expiration < got.at

\* on back end b, a get of a missing or expired key returns absent and
\* leaves no entry under the key
MissAbsentOn(b) ==
    (backend = b /\ GotMissing) =>
        /\ got.result = Absent
        /\ got.left = AbsentEntry

\* C11: get(key) for a key that was never set, or that has expired,
\* returns absent, never raises, and creates no entry: contains(key) is
\* still false afterwards.
C11_MissCreatesNothing == \A b \in Backends : MissAbsentOn(b)

-----------------------------------------------------------------------------
(* Clearing: the cache entries and the rate-limit entries of one back end  *)
(* (one MemoryPool._cache dict, one Redis database, one SQLite file).      *)
(* The caches' _cache_conn is read as the pool's connection.               *)

Namespaces == {"cache", "ratelimit"}
ItemKeys == {"k1", "k2"}
Items == [ns : Namespaces, key : ItemKeys]

\* MemoryPool.ACCEPTED_KEYS
ACCEPTED_KEYS == {"all", "cache", "ratelimit"}

\* MemoryPool.clear(key): the assert, then the filter; cache entries are
\* the CacheData values
MemoryPoolClear(items, key) ==
    IF key \notin ACCEPTED_KEYS THEN [raised |-> TRUE, items |-> items]
    ELSE [raised |-> FALSE,
          items |-> CASE key = "all" -> {}
                      [] key = "cache" -> {i \in items : i.ns # "cache"}
                      [] key = "ratelimit" -> {i \in items : i.ns = "cache"}]

\* flushdb(): every key of the database goes
FlushDb(items) == [raised |-> FALSE, items |-> {}]

\* SQLiteCache.clear: DELETE FROM cache
DeleteFromCache(items) == [raised |-> FALSE, items |-> {i \in items : i.ns # "cache"}]

\* a call that fails on a missing attribute or a failed assert
Raises(items) == [raised |-> TRUE, items |-> items]

\* InMemoryCache.clear / RedisCache.clear / SQLiteCache.clear
CacheClear(b, items) ==
    CASE b = "memory" -> MemoryPoolClear(items, "cls")
      [] b = "redis" -> FlushDb(items)
      [] b = "sqlite" -> DeleteFromCache(items)

\* Ratelimit.clear: self.cache is the pool's connection; the SQLite
\* connection has no clear method
RatelimitClear(b, items) ==
    CASE b = "memory" -> MemoryPoolClear(items, "cls")
      [] b = "redis" -> FlushDb(items)
      [] b = "sqlite" -> Raises(items)

NsInit ==
    /\ SessParked
    /\ LimParked
    /\ backend \in Backends
    /\ cache_timeout = 0
    /\ check_frequency = 0
    /\ renew = FALSE
    /\ entries = [k \in CacheKeys |-> AbsentEntry]
    /\ time_to_check = 0
    /\ got = NoGet
    /\ NsParked
    /\ CbParked
    /\ SqlParked
    /\ RegParked
    /\ ExtParked

\* an entry is written: a response is cached, or a limiter records state
PutItem(i) ==
    /\ pool_items' = pool_items \cup {i}
    /\ cleared' = NoClear
    /\ UNCHANGED backend
    /\ UNCHANGED notNs

Clearing(who, res) ==
    /\ pool_items' = res.items
    /\ cleared' = [called |-> TRUE, who |-> who, before |-> pool_items,
                   raised |-> res.raised]
    /\ UNCHANGED backend
    /\ UNCHANGED notNs

ClearCache ==
    /\ backend \in Backends
    /\ Clearing("Cache.clear", CacheClear(backend, pool_items))
ClearRatelimit ==
    /\ backend \in Backends
    /\ Clearing("Ratelimit.clear", RatelimitClear(backend, pool_items))
\* MemoryPool.clear(key) called directly
ClearPool(key) ==
    /\ backend = "memory"
    /\ Clearing(key, MemoryPoolClear(pool_items, key))

NsNext ==
    \/ \E i \in Items : PutItem(i)
    \/ ClearCache
    \/ ClearRatelimit
    \/ \E key \in ACCEPTED_KEYS \cup {"cls"} : ClearPool(key)

SpecClear == NsInit /\ [][NsNext]_vars

(* Clearing: the claims *)

ItemsOf(items, ns) == {i \in items : i.ns = ns}
\* the clear under study removes the entries of namespace ns and no other
ClearsOnly(ns) ==
    /\ ~cleared.raised
    /\ ItemsOf(pool_items, ns) = {}
    /\ \A other \in Namespaces \ {ns} :
           ItemsOf(pool_items, other) = ItemsOf(cleared.before, other)
JustCleared(who) ==
    /\ cleared.called
    /\ cleared.who = who

\* C12: on every back end, clearing the cache removes the cache entries
\* and leaves each rate-limit entry in place, clearing the limiter removes
\* the rate-limit entries and leaves each cache entry in place, and
\* neither clear raises.
C12_ClearsAreIndependent ==
    /\ JustCleared("Cache.clear") => ClearsOnly("cache")
    /\ JustCleared("Ratelimit.clear") => ClearsOnly("ratelimit")

-----------------------------------------------------------------------------
(* One request, from the transport's outcome to the callbacks:            *)
(* Session.__init__ / AsyncSession.__init__ (raise_errors), the except    *)
(* clauses of request, _retrieve_response and BaseSession._run_callbacks  *)

Kinds == {"sync", "async"}

\* what a callback does when called with the response: return a value,
\* raise an Exception, raise an exception outside Exception (SystemExit,
\* KeyboardInterrupt); or the item is no callable at all
CallbackKinds == {"returns", "raises", "exits", "notcallable"}

SeqsUpTo(S, n) == UNION {[1..m -> S] : m \in 0..n}

\* callbacks=None, and the callbacks field of a Response left at None
NoCallbacks == <<"None">>
NoResults == <<[ret |-> "None", of |-> 0]>>
CallbackTuples == SeqsUpTo(CallbackKinds, MaxCallbacks)

\* kwargs.pop("raise_errors", None) or config.raise_errors
RaiseErrorsOf(passed, configured) ==
    (passed = "true") \/ configured

\* Session(...) / AsyncSession(...): the sync session keeps the flag it
\* computed; the async session hands it to ClientSession's keyword filter
\* and reads config.raise_errors at each request
NewSession(k, passed) ==
    /\ call = NoCall
    /\ session' = [kind |-> k, passed |-> passed,
                   raise_errors |-> RaiseErrorsOf(passed, config.raise_errors)]
    /\ UNCHANGED <<config, call>>
    /\ UNCHANGED notCb

\* the flag the except clauses of request test
RaisesErrors ==
    IF session.kind = "sync" THEN session.raise_errors ELSE config.raise_errors

\* config.<flag> = value
SetConfig(flag, value) ==
    /\ call = NoCall
    /\ config' = [config EXCEPT ![flag] = value]
    /\ UNCHANGED <<session, call>>
    /\ UNCHANGED notCb

\* except Exception as e: what it catches of a callback's outcomes
CaughtNothing(outcome) == FALSE
Caught(outcome) == outcome = "raises"

\* the for loop of _run_callbacks from position i on: rets and the
\* positions called so far; ret of the callback at position i is named by i
RECURSIVE CallbackLoop(_, _, _, _)
CallbackLoop(callbacks, i, rets, invoked) ==
    IF i > Len(callbacks)
    THEN [rets |-> rets, invoked |-> invoked, raised |-> FALSE]
    ELSE CASE callbacks[i] = "notcallable" ->
                CallbackLoop(callbacks, i + 1, rets, invoked)
           [] callbacks[i] = "returns" ->
                CallbackLoop(callbacks, i + 1,
                             Append(rets, [ret |-> "value", of |-> i]),
                             Append(invoked, i))
           [] Caught(callbacks[i]) ->
                CallbackLoop(callbacks, i + 1,
                             Append(rets, [ret |-> "exception", of |-> i]),
                             Append(invoked, i))
           [] OTHER ->
                [rets |-> rets, invoked |-> Append(invoked, i), raised |-> TRUE]

\* the test that skips the callbacks
SkipsCallbacks(response, callbacks) ==
    \/ callbacks = NoCallbacks
    \/ response.errors # NoError /\ ~config.run_callbacks_on_error

\* BaseSession._run_callbacks(response, callbacks, bar, is_cache)
RunCallbacks(response, callbacks, bar, is_cache) ==
    LET r == [response EXCEPT !.is_cached = is_cache]
        tick == IF bar THEN 1 ELSE 0
    IN IF SkipsCallbacks(r, callbacks)
       THEN [raised |-> FALSE, response |-> r, callbacks |-> NoResults,
             invoked |-> <<>>, ticks |-> tick]
       ELSE LET loop == CallbackLoop(callbacks, 1, <<>>, <<>>)
            IN IF loop.raised
               THEN [raised |-> TRUE, response |-> r, callbacks |-> NoResults,
                     invoked |-> loop.invoked, ticks |-> 0]
               ELSE [raised |-> FALSE, response |-> r,
                     callbacks |-> IF config.return_callbacks THEN loop.rets
                                   ELSE NoResults,
                     invoked |-> loop.invoked, ticks |-> tick]

\* call keeps one request, from its start to the caller's taking the
\* result
CbInit ==
    /\ SessParked
    /\ LimParked
    /\ TtlParked
    /\ NsParked
    /\ CbParked
    /\ SqlParked
    /\ RegParked
    /\ ExtParked

\* request whose transport call returns r after el
RequestOk(r, el, callbacks, bar) ==
    /\ session.kind \in Kinds
    /\ call = NoCall
    /\ call' = [called |-> TRUE, failure |-> "none", given |-> callbacks, bar |-> bar]
               @@ RunCallbacks(RetrieveTransport(session.kind, r, el), callbacks, bar, FALSE)
    /\ UNCHANGED <<config, session>>
    /\ UNCHANGED notCb

\* request whose transport call raises f, and the exception is raised again
RequestRaises(f, callbacks, bar) ==
    /\ session.kind \in Kinds
    /\ call = NoCall
    /\ session.kind = "sync" => f.e # "client_body"
    /\ RaisesErrors \/ (session.kind = "async" /\ f.e = "client")
    /\ call' = [called |-> TRUE, failure |-> f.e, given |-> callbacks, bar |-> bar,
                raised |-> TRUE, response |-> NoResponse, callbacks |-> NoResults,
                invoked |-> <<>>, ticks |-> 0]
    /\ UNCHANGED <<config, session>>
    /\ UNCHANGED notCb

\* request whose transport call raises f, and a response is synthesized
RequestFails(f, callbacks, bar) ==
    /\ session.kind \in Kinds
    /\ call = NoCall
    /\ session.kind = "sync" => f.e # "client_body"
    /\ ~(RaisesErrors \/ (session.kind = "async" /\ f.e = "client"))
    /\ LET synthesized ==
               IF f.e = "timeout" THEN TimeoutResponse(session.kind)
               ELSE IF session.kind = "async" /\ f.e = "client_body"
                    THEN ErrorResponse(session.kind, f.s, f.e)
               ELSE ErrorResponse(session.kind, 500, f.e)
       IN call' = [called |-> TRUE, failure |-> f.e, given |-> callbacks, bar |-> bar]
                  @@ RunCallbacks(RetrieveSynthesized(session.kind, synthesized),
                                  callbacks, bar, FALSE)
    /\ UNCHANGED <<config, session>>
    /\ UNCHANGED notCb

\* the caller has the response, or the exception
Returned ==
    /\ call.called
    /\ call' = NoCall
    /\ UNCHANGED <<config, session>>
    /\ UNCHANGED notCb

CallbackInputs == CallbackTuples \cup {NoCallbacks}
\* the transport's answers told apart by status alone: one below 400 and
\* one above
CallbackResponses ==
    {r \in TransportResponses :
        r.status \in {200, 404} /\ r.content = <<>> /\ Len(r.headers) = 1}

CbNext ==
    \/ \E k \in Kinds, passed \in Flag : NewSession(k, passed)
    \/ \E flag \in DOMAIN ConfigDefaults, value \in BOOLEAN : SetConfig(flag, value)
    \/ \E r \in CallbackResponses, cbs \in CallbackInputs, bar \in BOOLEAN :
           RequestOk(r, 1, cbs, bar)
    \/ \E f \in Failures, cbs \in CallbackInputs, bar \in BOOLEAN :
           RequestRaises(f, cbs, bar)
    \/ \E f \in Failures, cbs \in CallbackInputs, bar \in BOOLEAN :
           RequestFails(f, cbs, bar)
    \/ Returned

SpecCallbacks == CbInit /\ [][CbNext]_vars

(* Claims about the callbacks and the synthesized responses, checked under *)
(* SpecCallbacks                                                           *)

\* the entries _run_callbacks collects when every callable item of given is
\* called and caught
RECURSIVE EntriesOf(_, _)
EntriesOf(given, i) ==
    IF i > Len(given) THEN <<>>
    ELSE IF given[i] = "notcallable" THEN EntriesOf(given, i + 1)
    ELSE <<[ret |-> IF given[i] = "returns" THEN "value" ELSE "exception",
            of |-> i]>> \o EntriesOf(given, i + 1)

\* the transport's exception left request
TransportRaised == call.called /\ call.raised /\ call.invoked = <<>>
\* request got as far as _run_callbacks
Reached == call.called /\ ~TransportRaised
\* a callback's exception left request
CallbackRaised == Reached /\ call.raised
HasCallbacks == call.given # NoCallbacks
\* the transport failed and request built the response itself
Synthesized == Reached /\ call.failure # "none"
CallbacksRun ==
    /\ Reached
    /\ HasCallbacks
    /\ call.response.errors = NoError \/ config.run_callbacks_on_error

\* C14 as stated: a callback that raises never makes request raise; with
\* return_callbacks enabled, response.callbacks holds, in the order given,
\* one entry per callable callback: its return value or its exception.
C14_CallbacksIsolated ==
    (Reached /\ HasCallbacks) =>
        /\ ~call.raised
        /\ config.return_callbacks => call.callbacks = EntriesOf(call.given, 1)

\* C14 as amended: a callback that raises an Exception never makes request
\* raise, and only an exception outside Exception does; when the callbacks
\* are run (callbacks given, and the response's errors unset or
\* run_callbacks_on_error enabled) and none of them ended request, with
\* return_callbacks enabled response.callbacks holds, in the order given,
\* one entry per callable callback: its return value or the Exception it
\* raised; when the callbacks are not run, none is called and
\* response.callbacks stays None.
C14_ExceptionsIsolated ==
    /\ CallbackRaised =>
          /\ CallbacksRun
          /\ call.given[call.invoked[Len(call.invoked)]] = "exits"
    /\ (Reached /\ HasCallbacks /\ \A i \in DOMAIN call.given : call.given[i] # "exits")
          => ~call.raised
    /\ (CallbacksRun /\ ~call.raised) =>
          call.callbacks = IF config.return_callbacks
                           THEN EntriesOf(call.given, 1) ELSE NoResults
    /\ (Reached /\ ~CallbacksRun) =>
          /\ call.invoked = <<>>
          /\ call.callbacks = NoResults

\* a raising callback was followed by a returning one: request returned
\* and response.callbacks holds the exception, then the value
C14_Witness ==
    /\ Reached
    /\ config.return_callbacks
    /\ call.given = <<"raises", "returns">>
    /\ ~call.raised
    /\ call.callbacks = <<[ret |-> "exception", of |-> 1], [ret |-> "value", of |-> 2]>>

\* C15: when the response is one request synthesized from a timeout or a
\* transport failure and run_callbacks_on_error is disabled, no callback is
\* called and only the progress tick advances, in the sync and in the
\* async session.
C15_NoCallbacksOnError ==
    (Synthesized /\ ~config.run_callbacks_on_error) =>
        /\ call.invoked = <<>>
        /\ ~call.raised
        /\ call.callbacks = NoResults
        /\ call.ticks = IF call.bar THEN 1 ELSE 0

\* C16: a session built without raise_errors, or with raise_errors=False,
\* catches a transport failure and returns a synthesized response; the
\* transport's exception does not leave request, sync or async.
C16_FailuresCaught ==
    (call.called /\ call.failure # "none" /\ session.passed \in {"unset", "false"}) =>
        /\ ~TransportRaised
        /\ call.response.status \in {408, 500, 200, 404}
        /\ call.response.status = 408 <=> call.failure = "timeout"

\* C17: when the transport times out and the error is not raised, the
\* response request returns has status 408, reason "Request Timeout" and
\* errors set to the exception, sync or async.
C17_TimeoutResponse ==
    (Reached /\ call.failure = "timeout" /\ ~call.raised) =>
        /\ call.response.status = 408
        /\ call.response.reason = "Request Timeout"
        /\ call.response.errors = "timeout"

-----------------------------------------------------------------------------
(* The SQL connection pool of backends/sqlite_pool.py: one SQLitePool per  *)
(* thread, get_connection, release and the idle reaper release triggers.   *)
(* A thread releases the connections it holds.  sqlite3 refuses close() on *)
(* a connection from a thread other than the one that created it.          *)

\* ResourcePool.thread_id: the id of the calling thread
ThreadIdOf(t) == t

\* self.pool: self.pools[self.thread_id]
PoolOfShared(t) == 1
PoolOf(t) == ThreadIdOf(t)

ConnIds == 1..Len(connections)
HeldBy(t) == {c \in ConnIds : connections[c].state = "held" /\ connections[c].holder = t}

SqlInit ==
    /\ SessParked
    /\ LimParked
    /\ TtlParked
    /\ NsParked
    /\ CbParked
    /\ \E m \in 0..MaxConnections : pools = [t \in Threads |-> NewPool(m)]
    /\ n_connections = [t \in Threads |-> 0]
    /\ connections = <<>>
    /\ blocked = {}
    /\ handed = NoHand
    /\ RegParked
    /\ ExtParked

\* SQLiteConnection(db_name): _thread_id is the creating thread
SQLiteConnection(t) == [thread_id |-> t, state |-> "held", holder |-> t]

\* get_connection, the pool empty and n_connections < max_connections:
\* create_connection
GetConnectionCreates(t) ==
    /\ t \notin blocked
    /\ Len(connections) < MaxCreated
    /\ pools[PoolOf(t)].queue = <<>>
    /\ pools[PoolOf(t)].n_connections < pools[PoolOf(t)].max_connections
    /\ n_connections' = [n_connections EXCEPT ![t] = @ + 1]
    /\ connections' = Append(connections, SQLiteConnection(t))
    /\ handed' = [called |-> TRUE, to |-> t, conn |-> Len(connections) + 1,
                  raised |-> FALSE]
    /\ UNCHANGED <<pools, blocked>>
    /\ UNCHANGED notSql

\* get_connection, the pool empty and no connection to create: the thread
\* polls its own queue until the timeout and raises
GetConnectionWaits(t) ==
    /\ t \notin blocked
    /\ pools[PoolOf(t)].queue = <<>>
    /\ ~(pools[PoolOf(t)].n_connections < pools[PoolOf(t)].max_connections)
    /\ handed' = [called |-> TRUE, to |-> t, conn |-> 0, raised |-> TRUE]
    /\ UNCHANGED <<pools, n_connections, connections, blocked>>
    /\ UNCHANGED notSql

\* get_connection, the pool not empty: pool.get()
GetConnectionTakes(t) ==
    /\ t \notin blocked
    /\ pools[PoolOf(t)].queue # <<>>
    /\ LET c == Head(pools[PoolOf(t)].queue)
       IN /\ pools' = [pools EXCEPT ![PoolOf(t)].queue = Tail(@)]
          /\ connections' = [connections EXCEPT ![c].state = "held", ![c].holder = t]
          /\ handed' = [called |-> TRUE, to |-> t, conn |-> c, raised |-> FALSE]
    /\ UNCHANGED <<n_connections, blocked>>
    /\ UNCHANGED notSql

\* close_pool(u) called by thread t on the state st: the queue is drained,
\* each connection closed; close() raises when t did not create it, the
\* connection already taken off the queue
RECURSIVE ClosePool(_, _, _)
ClosePool(st, t, u) ==
    IF st.pools[u].queue = <<>> THEN st
    ELSE LET c == Head(st.pools[u].queue)
             taken == [st EXCEPT !.pools[u].queue = Tail(@)]
         IN IF st.connections[c].thread_id # t
            THEN [taken EXCEPT !.connections[c].state = "lost", !.raised = TRUE]
            ELSE ClosePool([taken EXCEPT !.connections[c].state = "closed",
                                         !.n_connections[u] = @ - 1],
                           t, u)

\* close_idle_pools: the first pass closes the pools found expired, in the
\* order of the dict
RECURSIVE CloseExpired(_, _, _)
CloseExpired(st, t, expired) ==
    IF expired = <<>> \/ st.raised THEN st
    ELSE CloseExpired(ClosePool(st, t, Head(expired)), t, Tail(expired))

\* the second pass pops them: the next access builds a new SQLitePool
RECURSIVE PopExpired(_, _)
PopExpired(st, expired) ==
    IF expired = <<>> THEN st
    ELSE LET u == Head(expired)
         IN PopExpired([st EXCEPT !.pools[u] = NewPool(@.max_connections),
                                  !.n_connections[u] = 0],
                       Tail(expired))

CloseIdlePools(st, t, expired) ==
    LET closed == CloseExpired(st, t, expired)
    IN IF closed.raised THEN closed ELSE PopExpired(closed, expired)

\* the orders in which a set of threads may come out of the dict
Orders(S) == {q \in UNION {[1..n -> S] : n \in 0..Cardinality(S)} :
                 /\ Len(q) = Cardinality(S)
                 /\ \A i, j \in 1..Len(q) : i # j => q[i] # q[j]}
ExpiredOrders(among) == UNION {Orders(S) : S \in SUBSET among}

SqlState == [pools |-> pools, n_connections |-> n_connections,
             connections |-> connections, raised |-> FALSE]

SqlAfter(st) ==
    /\ pools' = st.pools
    /\ n_connections' = st.n_connections
    /\ connections' = st.connections

\* Queue.put on a full bounded queue never returns
PutBlocks(pool) ==
    pool.max_connections > 0 /\ Len(pool.queue) >= pool.max_connections

\* release(conn, recycle=True) by the thread holding conn, then the reaper;
\* the releasing thread's pool has just got a new deadline
ReleaseRecycles(t, c, expired) ==
    /\ t \notin blocked
    /\ c \in HeldBy(t)
    /\ ~PutBlocks(pools[PoolOf(t)])
    /\ PoolOf(t) \notin {expired[i] : i \in 1..Len(expired)}
    /\ SqlAfter(CloseIdlePools(
           [SqlState EXCEPT !.pools[PoolOf(t)].queue = Append(@, c),
                            !.connections[c].state = "idle"],
           t, expired))
    /\ handed' = NoHand
    /\ UNCHANGED blocked
    /\ UNCHANGED notSql

\* release(conn, recycle=True) into a full queue: put blocks, the pool's
\* lock held
ReleaseBlocks(t, c) ==
    /\ t \notin blocked
    /\ c \in HeldBy(t)
    /\ PutBlocks(pools[PoolOf(t)])
    /\ blocked' = blocked \cup {t}
    /\ handed' = NoHand
    /\ UNCHANGED <<pools, n_connections, connections>>
    /\ UNCHANGED notSql

\* release(conn, recycle=False), then the reaper
ReleaseCloses(t, c, expired) ==
    /\ t \notin blocked
    /\ c \in HeldBy(t)
    /\ SqlAfter(CloseIdlePools(
           [SqlState EXCEPT !.connections[c].state = "closed",
                            !.n_connections[t] = @ - 1],
           t, expired))
    /\ handed' = NoHand
    /\ UNCHANGED blocked
    /\ UNCHANGED notSql

SqlNext ==
    \/ \E t \in Threads : GetConnectionCreates(t)
    \/ \E t \in Threads : GetConnectionWaits(t)
    \/ \E t \in Threads : GetConnectionTakes(t)
    \/ \E t \in Threads, c \in ConnIds, expired \in ExpiredOrders(Threads) :
           ReleaseRecycles(t, c, expired)
    \/ \E t \in Threads, c \in ConnIds : ReleaseBlocks(t, c)
    \/ \E t \in Threads, c \in ConnIds, expired \in ExpiredOrders(Threads) :
           ReleaseCloses(t, c, expired)

SpecSqlPool == SqlInit /\ [][SqlNext]_vars

(* Claims about the SQL pool, checked under SpecSqlPool *)

\* the connections thread t created that are not closed
LiveOf(t) ==
    {c \in ConnIds : connections[c].thread_id = t /\ connections[c].state # "closed"}

\* C18: the number of live (created and not yet closed) connections of a
\* thread never exceeds max_connections.
C18_LiveWithinMax ==
    \A t \in Threads : Cardinality(LiveOf(t)) <= pools[t].max_connections

-----------------------------------------------------------------------------
(* The registry of pools: ConnectionPool.from_options under the class     *)
(* lock, and the three managers' from_options                              *)

\* SQLiteOptions: the database path and a field that is no part of it
SQLiteOptionsSet == [db_name : {"a.db", "b.db"}, max_connections : {2, 5}]
\* RedisOptions likewise
RedisOptionsSet ==
    [host : {"h"}, port : {6379}, unix_socket_path : {"None"}, db : {0, 1},
     username : {"None"}, decode_responses : BOOLEAN]
MemoryOptionsSet == {[key |-> "cache"]}

OptionsOf(b) ==
    CASE b = "sqlite" -> SQLiteOptionsSet
      [] b = "redis" -> RedisOptionsSet
      [] b = "memory" -> MemoryOptionsSet

\* __hash__ of the options classes, over the fields kept here
HashOf(b, o) ==
    CASE b = "sqlite" -> <<o.db_name>>
      [] b = "redis" -> <<o.host, o.port, o.unix_socket_path, o.db, o.username>>
      [] b = "memory" -> <<o.key>>

\* the dataclass-generated __eq__: every field
SameIdentity(b, o1, o2) == HashOf(b, o1) = HashOf(b, o2)
OptionsEqual(b, o1, o2) == o1 = o2

\* dict lookup: the entries whose key has the hash of o and equals o
Found(b, o) ==
    {e \in registry[b] : HashOf(b, e.options) = HashOf(b, o)
                         /\ OptionsEqual(b, e.options, o)}

RegInit ==
    /\ SessParked
    /\ LimParked
    /\ TtlParked
    /\ NsParked
    /\ CbParked
    /\ SqlParked
    /\ RegParked
    /\ ExtParked

Returning(b, o, pool) == returns' = returns \cup {[backend |-> b, options |-> o, pool |-> pool]}

\* SQLitePoolManager.from_options: setdefault's second argument is
\* evaluated first, a pool is constructed on every call
FromOptionsSqlite(o) ==
    /\ Len(made) < MaxPools
    /\ made' = Append(made, [backend |-> "sqlite", options |-> o])
    /\ IF Found("sqlite", o) = {}
       THEN /\ registry' = [registry EXCEPT !["sqlite"] =
                               @ \cup {[options |-> o, pool |-> Len(made) + 1]}]
            /\ Returning("sqlite", o, Len(made) + 1)
       ELSE /\ UNCHANGED registry
            /\ \E e \in Found("sqlite", o) : Returning("sqlite", o, e.pool)
    /\ UNCHANGED notReg

\* RedisPoolManager.from_options: the pool found
FromOptionsRedisFound(o) ==
    /\ Found("redis", o) # {}
    /\ \E e \in Found("redis", o) : Returning("redis", o, e.pool)
    /\ UNCHANGED <<registry, made>>
    /\ UNCHANGED notReg

\* RedisPoolManager.from_options: no pool found, one is made and kept
FromOptionsRedisNew(o) ==
    /\ Len(made) < MaxPools
    /\ Found("redis", o) = {}
    /\ made' = Append(made, [backend |-> "redis", options |-> o])
    /\ registry' = [registry EXCEPT !["redis"] =
                       @ \cup {[options |-> o, pool |-> Len(made) + 1]}]
    /\ Returning("redis", o, Len(made) + 1)
    /\ UNCHANGED notReg

\* MemoryPoolManager.from_options: a new MemoryPool on every call
FromOptionsMemory(o) ==
    /\ Len(made) < MaxPools
    /\ made' = Append(made, [backend |-> "memory", options |-> o])
    /\ Returning("memory", o, Len(made) + 1)
    /\ UNCHANGED registry
    /\ UNCHANGED notReg

RegNext ==
    \/ \E o \in SQLiteOptionsSet : FromOptionsSqlite(o)
    \/ \E o \in RedisOptionsSet : FromOptionsRedisFound(o)
    \/ \E o \in RedisOptionsSet : FromOptionsRedisNew(o)
    \/ \E o \in MemoryOptionsSet : FromOptionsMemory(o)

SpecRegistry == RegInit /\ [][RegNext]_vars

(* Claims about the registry, checked under SpecRegistry *)

Keyed == {"sqlite", "redis"}

\* C20: from_options calls with options of the same identity (SQL: the
\* database path; remote KV: host, port, socket, db and user) return one
\* and the same pool, and at most one pool ever exists per identity.
C20_OnePoolPerIdentity ==
    /\ \A r1, r2 \in returns :
          (r1.backend = r2.backend /\ r1.backend \in Keyed
           /\ SameIdentity(r1.backend, r1.options, r2.options))
              => r1.pool = r2.pool
    /\ \A i, j \in 1..Len(made) :
          (made[i].backend = made[j].backend /\ made[i].backend \in Keyed
           /\ SameIdentity(made[i].backend, made[i].options, made[j].options))
              => i = j

-----------------------------------------------------------------------------
(* The fan-out call: AsyncSession.requests, Session.requests,
   RequestsSession.requests *)

SessionClasses == {"AsyncSession", "Session", "RequestsSession"}
Methods == {"GET", "POST"}
FanUrls == {"u1", "u2"}
UrlSeqs == UNION {[1..n -> FanUrls] : n \in 1..MaxUrls}
\* method is one string (held as v[1]), or a list / tuple of methods
MethodArgs ==
    {[str |-> TRUE, v |-> <<m>>] : m \in Methods}
    \cup {[str |-> FALSE, v |-> ms] : ms \in UNION {[1..n -> Methods] : n \in 1..MaxUrls}}

\* isinstance(method, str)
IsStr(method) == method.str

\* zip(urls, method): as long as the shorter of the two
Zip(urls, methods) ==
    [i \in 1..(IF Len(urls) < Len(methods) THEN Len(urls) ELSE Len(methods))
        |-> [url |-> urls[i], method |-> methods[i]]]

\* items = zip(urls, method) if method is a list or tuple,
\* else ((url, method) for url in urls)
ItemsOfCall(urls, method) ==
    IF ~IsStr(method)
    THEN Zip(urls, method.v)
    ELSE [i \in 1..Len(urls) |-> [url |-> urls[i], method |-> method.v[1]]]

\* requests' signature and its call of self.request: the ratelimit flag the
\* dispatched request receives. AsyncSession.requests declares ratelimit=True
\* and passes it on; Session.requests passes its **kwargs on, to self.request,
\* or, threaded, to AsyncSession.requests
PassedRatelimit(cls, threaded, ratelimit) ==
    IF cls = "AsyncSession" \/ (cls = "Session" /\ threaded)
    THEN (IF ratelimit = "unset" THEN "true" ELSE ratelimit)
    ELSE ratelimit
\* cache is no parameter of any requests: it travels in **kwargs
PassedCache(cls, threaded, cache) == cache

\* the defaults of the session whose request is dispatched: the session
\* itself, or, threaded, AsyncSession(loop=, backend=, **self.__kwargs), whose
\* cache and ratelimit parameters keep their defaults
DispatchDefault(cls, threaded, default) ==
    IF cls = "Session" /\ threaded THEN FALSE ELSE default

\* self.request(url=url, method=method, ...): the response to one item, with
\* the flags _cache_decorator and _ratelimit_decorator resolved for it
ResponseTo(item, c) ==
    [url |-> item.url, method |-> item.method,
     cache |-> Effective(PassedCache(c.cls, c.threaded, c.cache),
                         DispatchDefault(c.cls, c.threaded, c.use_cache)),
     ratelimit |-> Effective(IF c.collects = "direct" THEN c.ratelimit
                             ELSE PassedRatelimit(c.cls, c.threaded, c.ratelimit),
                             DispatchDefault(c.cls, c.threaded, c.use_ratelimit))]

\* how the results are collected: asyncio.gather keeps the order of its
\* arguments; a generator of self.request calls runs them one after another;
\* as_completed yields the futures as they finish
Collects(cls, threaded) ==
    CASE cls = "AsyncSession" -> "gather"
      [] cls = "Session" -> IF threaded THEN "gather" ELSE "sequential"
      [] cls = "RequestsSession" -> IF threaded THEN "as_completed" ELSE "sequential"

\* the first seven parts at rest
OldParked ==
    /\ SessParked
    /\ LimParked
    /\ TtlParked
    /\ NsParked
    /\ CbParked
    /\ SqlParked
    /\ RegParked

\* no call made yet
FanInit ==
    /\ OldParked
    /\ ExtParked

\* requests(urls, method, threaded=...): the items are made and the requests
\* dispatched; threaded stands for self._threaded and threaded
Requests(cls, threaded, urls, method, flags) ==
    /\ fan.pc = "none"
    /\ fan' = [pc |-> "running", via |-> "requests", cls |-> cls, threaded |-> threaded,
               urls |-> urls, method |-> method,
               use_cache |-> flags.use_cache, use_ratelimit |-> flags.use_ratelimit,
               cache |-> flags.cache, ratelimit |-> flags.ratelimit,
               items |-> ItemsOfCall(urls, method),
               collects |-> Collects(cls, threaded),
               finished |-> <<>>]
    /\ UNCHANGED notFan

\* self.request(url=url, method=method, **kw) entered: the decorated
\* pipeline runs for this one request
RequestEntered(via, cls, url, method, flags) ==
    [pc |-> "running", via |-> via, cls |-> cls, threaded |-> FALSE,
     urls |-> <<url>>, method |-> [str |-> TRUE, v |-> <<method>>],
     use_cache |-> flags.use_cache, use_ratelimit |-> flags.use_ratelimit,
     cache |-> flags.cache, ratelimit |-> flags.ratelimit,
     items |-> <<[url |-> url, method |-> method]>>,
     collects |-> "direct",
     finished |-> <<>>]

\* request(url, method, cache=, ratelimit=) called directly
Request(cls, url, method, flags) ==
    /\ fan.pc = "none"
    /\ fan' = RequestEntered("request", cls, url, method, flags)
    /\ UNCHANGED notFan

Shorthands == {"get", "head", "options", "delete", "post", "put", "patch"}
\* the method each shorthand names
MethodOf(name) ==
    CASE name = "get" -> "GET"
      [] name = "head" -> "HEAD"
      [] name = "options" -> "OPTIONS"
      [] name = "delete" -> "DELETE"
      [] name = "post" -> "POST"
      [] name = "put" -> "PUT"
      [] name = "patch" -> "PATCH"

\* what each shorthand calls: self.request, the decorated pipeline, or
\* super().request, which for AsyncSession(BaseSession) is the abstract
\* BaseSession.request
Target(cls, name) ==
    IF cls = "AsyncSession" /\ name \in {"post", "put"} THEN "super" ELSE "self"

\* get / head / options / delete / post / put / patch (url, **kw).
\* BaseSession.request's body is pass: it returns None, and `await None`
\* raises TypeError before anything of the pipeline has run
Shorthand(cls, name, url, flags) ==
    /\ fan.pc = "none"
    /\ fan' = IF Target(cls, name) = "self"
              THEN RequestEntered(name, cls, url, MethodOf(name), flags)
              ELSE [pc |-> "raised", via |-> name, cls |-> cls,
                    urls |-> <<url>>, error |-> "TypeError"]
    /\ UNCHANGED notFan

Pending == {i \in 1..Len(fan.items) : \A j \in 1..Len(fan.finished) : fan.finished[j] # i}

\* one dispatched request finishes: any pending one when they run
\* concurrently, the next one when they run one after another
RequestFinishes(i) ==
    /\ fan.pc = "running"
    /\ i \in Pending
    /\ fan.collects \in {"sequential", "direct"} => i = Len(fan.finished) + 1
    /\ fan' = [fan EXCEPT !.finished = Append(@, i)]
    /\ UNCHANGED notFan

\* the results handed back once every request has finished
Results ==
    IF fan.collects = "as_completed"
    THEN [j \in 1..Len(fan.finished) |-> ResponseTo(fan.items[fan.finished[j]], fan)]
    ELSE [i \in 1..Len(fan.items) |-> ResponseTo(fan.items[i], fan)]

RequestsReturns ==
    /\ fan.pc = "running"
    /\ Pending = {}
    /\ fan' = [pc |-> "returned", via |-> fan.via, cls |-> fan.cls, threaded |-> fan.threaded,
               urls |-> fan.urls, method |-> fan.method,
               use_cache |-> fan.use_cache, use_ratelimit |-> fan.use_ratelimit,
               cache |-> fan.cache, ratelimit |-> fan.ratelimit,
               direct |-> fan.collects = "direct", results |-> Results]
    /\ UNCHANGED notFan

\* the caller has the results, or the exception: the session is ready for
\* its next call
ResultsTaken ==
    /\ fan.pc \in {"returned", "raised"}
    /\ fan' = NoFan
    /\ UNCHANGED notFan

\* the session defaults and the per-call flags of one call. RequestsSession is
\* a requests.Session with neither cache nor limiter: its request takes no
\* such flag
NoFlags == [use_cache |-> FALSE, use_ratelimit |-> FALSE,
            cache |-> "unset", ratelimit |-> "unset"]
FlagsOf(cls) ==
    IF cls = "RequestsSession"
    THEN {NoFlags}
    ELSE [use_cache : BOOLEAN, use_ratelimit : BOOLEAN, cache : Flag, ratelimit : Flag]

\* the calls a session may receive once it is idle
CallRequests ==
    /\ fan.pc = "none"
    /\ \E cls \in SessionClasses, threaded \in BOOLEAN, urls \in UrlSeqs,
          method \in MethodArgs :
            \E flags \in FlagsOf(cls) : Requests(cls, threaded, urls, method, flags)
CallRequest ==
    /\ fan.pc = "none"
    /\ \E cls \in SessionClasses, url \in FanUrls, method \in Methods :
            \E flags \in FlagsOf(cls) : Request(cls, url, method, flags)
CallShorthand ==
    /\ fan.pc = "none"
    /\ \E cls \in SessionClasses, name \in Shorthands, url \in FanUrls :
            \E flags \in FlagsOf(cls) : Shorthand(cls, name, url, flags)

FanNext ==
    \/ CallRequests
    \/ CallRequest
    \/ CallShorthand
    \/ \E i \in 1..MaxUrls : RequestFinishes(i)
    \/ RequestsReturns
    \/ ResultsTaken

SpecFanout == FanInit /\ [][FanNext]_vars

\* C21: every requests call returns one response per input URL, and result i
\* is the response for urls[i], for the three session classes, threaded or not
C21_ResultsInInputOrder ==
    fan.pc = "returned" =>
        /\ Len(fan.results) = Len(fan.urls)
        /\ \A i \in 1..Len(fan.urls) : fan.results[i].url = fan.urls[i]

\* C22: for request and for requests, every dispatched request runs with the
\* per-call cache and ratelimit flags when the caller gave them and with the
\* session's defaults otherwise
C22_FlagsResolved ==
    fan.pc = "returned" =>
        \A i \in 1..Len(fan.results) :
            /\ fan.results[i].cache = Effective(fan.cache, fan.use_cache)
            /\ fan.results[i].ratelimit = Effective(fan.ratelimit, fan.use_ratelimit)

\* what request(method=M, url=url, **kw) hands back on the same session
RequestResult(cls, url, method, flags) ==
    <<ResponseTo([url |-> url, method |-> method],
                 RequestEntered("request", cls, url, method, flags))>>

FlagsGiven == [use_cache |-> fan.use_cache, use_ratelimit |-> fan.use_ratelimit,
               cache |-> fan.cache, ratelimit |-> fan.ratelimit]

\* C23: each shorthand get/head/options/delete/post/put/patch(url, **kw)
\* behaves as request(method=M, url=url, **kw) on the same session, for
\* Session and AsyncSession (and RequestsSession)
C23_ShorthandIsRequest ==
    fan.pc # "none" /\ fan.via \in Shorthands =>
        /\ fan.pc # "raised"
        /\ fan.pc = "returned" =>
             fan.results = RequestResult(fan.cls, fan.urls[1], MethodOf(fan.via), FlagsGiven)

-----------------------------------------------------------------------------
(* The User-Agent header: Session.request, AsyncSession.request *)

\* sessions/vars.py: the signature httpx sends by default
HTTPX_DEFAULT_AGENT == "python-httpx"
NoneAgent == "None"

HeaderKeys == {"User-Agent", "user-agent", "USER-AGENT", "Accept"}
\* the key folded as a case-insensitive mapping folds it
Fold(key) == IF key = "Accept" THEN "accept" ELSE "user-agent"
ValueOf(key) == IF key = "Accept" THEN "*/*" ELSE "call-agent"

\* the headers argument of one call: None, a dict (its keys are compared as
\* they are spelt), or an httpx Headers / CIMultiDict (its keys are compared
\* case-insensitively, so it holds one spelling of a key)
NoneArg == [type |-> "None", keys |-> {}]
HeaderArgs ==
    {NoneArg}
    \cup {[type |-> "dict", keys |-> ks] : ks \in SUBSET HeaderKeys}
    \cup {[type |-> "ci", keys |-> ks] :
            ks \in {k \in SUBSET HeaderKeys :
                      \A a, b \in k : Fold(a) = Fold(b) => a = b}}

\* headers.get(key)
GetFolded(h, key) ==
    IF \E k \in h.keys : Fold(k) = Fold(key) THEN ValueOf(key) ELSE NoneAgent
Get(h, key) ==
    IF h.type = "ci"
    THEN GetFolded(h, key)
    ELSE IF key \in h.keys THEN ValueOf(key) ELSE NoneAgent

\* self.headers.get("user-agent") / self._session.headers.get("user-agent"):
\* the agent the session was built with, else what the transport holds by
\* default (httpx: its signature; aiohttp: no such header)
SessionAgent(k, custom) ==
    IF custom THEN "session-agent"
    ELSE IF k = "sync" THEN HTTPX_DEFAULT_AGENT ELSE NoneAgent
IsTransportDefault(k, agent) ==
    IF k = "sync" THEN agent = HTTPX_DEFAULT_AGENT ELSE agent = NoneAgent

\* headers = headers if isinstance(headers, (dict, HTTPXHeaders, CIMultiDict)) else {}
AsMapping(h) == IF h.type = "None" THEN [type |-> "dict", keys |-> {}] ELSE h

\* the test before headers["User-Agent"] = useragent()
Injects(k, random, custom, h) ==
    /\ random
    /\ IsTransportDefault(k, SessionAgent(k, custom))
    /\ Get(AsMapping(h), "User-Agent") = NoneAgent
    /\ Get(AsMapping(h), "user-agent") = NoneAgent

\* the User-Agent values of the request sent: the transport merges the
\* call's headers over the session's, case-insensitively
Sent(k, custom, h, injected) ==
    LET mine == {ValueOf(key) : key \in {x \in h.keys : Fold(x) = "user-agent"}}
                \cup (IF injected THEN {"random-agent"} ELSE {})
    IN  IF mine # {} THEN mine ELSE {SessionAgent(k, custom)}

UaInit ==
    /\ OldParked
    /\ ExtParked

\* Session(random_user_agents=, headers=) / AsyncSession(...)
NewUaSession(k, random, custom) ==
    /\ ua.pc = "none"
    /\ ua' = [pc |-> "built", kind |-> k, random |-> random, custom |-> custom]
    /\ UNCHANGED notUa

\* request(url, method, headers=h) up to the transport call
UaRequest(h) ==
    /\ ua.pc # "none"
    /\ LET injected == Injects(ua.kind, ua.random, ua.custom, h)
       IN  ua' = [pc |-> "sent", kind |-> ua.kind, random |-> ua.random,
                  custom |-> ua.custom, given |-> h, injected |-> injected,
                  sent |-> Sent(ua.kind, ua.custom, h, injected)]
    /\ UNCHANGED notUa

\* the session is closed
UaClose ==
    /\ ua.pc = "sent"
    /\ ua' = NoUa
    /\ UNCHANGED notUa

UaNext ==
    \/ \E k \in {"sync", "async"}, random \in BOOLEAN, custom \in BOOLEAN :
          NewUaSession(k, random, custom)
    \/ \E h \in HeaderArgs : UaRequest(h)
    \/ UaClose

SpecUserAgent == UaInit /\ [][UaNext]_vars

\* the call's headers hold a user-agent key, in whatever letter case
GivesAgent(h) == \E key \in h.keys : Fold(key) = "user-agent"

\* C24: a random user-agent is injected if and only if random_user_agents is
\* on, the call's headers hold no user-agent key under any letter case and the
\* session's user-agent is the transport default; otherwise the call's
\* user-agent is the one sent, and a call without one sends the session's
C24_RandomAgentInjection ==
    ua.pc = "sent" =>
        /\ ua.injected <=> (ua.random /\ ~GivesAgent(ua.given) /\ ~ua.custom)
        /\ GivesAgent(ua.given) => ua.sent = {"call-agent"}
        /\ ~GivesAgent(ua.given) /\ ~ua.injected =>
               ua.sent = {SessionAgent(ua.kind, ua.custom)}

-----------------------------------------------------------------------------
(* One store under two caches: session A built with cache_timeout = 0,
   session B with cache_timeout > 0, same back end, same key of one url.
   Time is in whole seconds and starts past the epoch. *)

NoRow == [present |-> FALSE]
Row(value, expiration) == [present |-> TRUE, value |-> value, expiration |-> expiration]

\* __setitem__ on each back end: the row written, or the exception.
\*   memory: self._cache[key] = self._default(value), CacheData(value,
\*           time() + cache_timeout)
\*   sqlite: expiration = time() + cache_timeout if cache_timeout else 0
\*   redis:  setex(key, int(cache_timeout), value); the server refuses a
\*           time to live of 0
SetRow(b, timeout, v, t) ==
    CASE b = "memory" -> [raised |-> FALSE, row |-> Row(v, t + timeout)]
      [] b = "sqlite" -> [raised |-> FALSE,
                          row |-> Row(v, IF timeout # 0 THEN t + timeout ELSE 0)]
      [] b = "redis" -> IF timeout = 0
                        THEN [raised |-> TRUE, row |-> NoRow]
                        ELSE [raised |-> FALSE, row |-> Row(v, t + timeout)]

\* the DELETE of cache_expiration_trigger and of _create_tables, run by a
\* cache whose cache_timeout is not 0
TriggerRow(timeout, row, t) ==
    IF timeout # 0 /\ row.present /\ row.expiration < t THEN NoRow ELSE row

\* the server has dropped a key whose time to live is over
ServerRow(row, t) == IF row.present /\ row.expiration <= t THEN NoRow ELSE row

\* __getitem__ on each back end: what is returned and the row left.
\*   memory: MemoryPool.__getitem__; its sweep drops only entries stored
\*           under the pool's own key, which no parsed url key is; a missing
\*           key gets default(key) stored and returned
\*   sqlite: a row with cache_timeout and expiration < time() is deleted
\*   redis:  getex(key, int(cache_timeout)) when renew, else get(key)
GetRow(b, timeout, renew_on_get, row, t) ==
    CASE b = "memory" ->
            IF row.present
            THEN [result |-> row.value, row |-> row]
            ELSE [result |-> "default", row |-> Row("default", t + timeout)]
      [] b = "sqlite" ->
            IF ~row.present THEN [result |-> Absent, row |-> row]
            ELSE IF timeout # 0 /\ row.expiration < t
                 THEN [result |-> Absent, row |-> NoRow]
                 ELSE [result |-> row.value, row |-> row]
      [] b = "redis" ->
            LET live == ServerRow(row, t)
            IN  IF renew_on_get /\ timeout = 0
                THEN [result |-> "ResponseError", row |-> live]
                ELSE IF ~live.present THEN [result |-> Absent, row |-> NoRow]
                ELSE [result |-> live.value,
                      row |-> IF renew_on_get THEN Row(live.value, t + timeout) ELSE live]

\* the sessions and their cache_timeout
TimeoutOf(who) == IF who = "A" THEN 0 ELSE shared.timeout_b

SharedInit ==
    /\ OldParked
    /\ ExtParked

\* the two sessions are built on back end b; B's _create_tables runs
OpenStore(b, tb, renew_on_get) ==
    /\ shared.pc = "none"
    /\ shared' = [pc |-> "open", backend |-> b, timeout_b |-> tb,
                  renew |-> renew_on_get, t |-> 1, row |-> NoRow,
                  held |-> FALSE, last |-> [op |-> "none"]]
    /\ UNCHANGED notShared

SharedTick ==
    /\ shared.pc = "open"
    /\ shared.t < MaxTime
    /\ shared' = [shared EXCEPT !.t = @ + 1]
    /\ UNCHANGED notShared

\* cache[url] = response by session who
SharedSet(who) ==
    /\ shared.pc = "open"
    /\ LET r == SetRow(shared.backend, TimeoutOf(who), who, shared.t)
       IN  shared' = [shared EXCEPT
                        !.row = IF r.raised THEN @ ELSE r.row,
                        !.held = IF r.raised THEN @ ELSE who = "A",
                        !.last = [op |-> "set", by |-> who, raised |-> r.raised]]
    /\ UNCHANGED notShared

\* cache[url] by session who
SharedGet(who) ==
    /\ shared.pc = "open"
    /\ LET r == GetRow(shared.backend, TimeoutOf(who), shared.renew, shared.row, shared.t)
       IN  shared' = [shared EXCEPT
                        !.row = r.row,
                        !.last = [op |-> "get", by |-> who, held |-> shared.held,
                                  result |-> r.result]]
    /\ UNCHANGED notShared

\* url in cache by session who: on sqlite the trigger runs first
SharedContains(who) ==
    /\ shared.pc = "open"
    /\ shared.backend = "sqlite"
    /\ LET row == TriggerRow(TimeoutOf(who), shared.row, shared.t)
       IN  shared' = [shared EXCEPT
                        !.row = row,
                        !.last = [op |-> "contains", by |-> who]]
    /\ UNCHANGED notShared

\* del cache[url] or cache.clear() by session who
SharedDelete(who) ==
    /\ shared.pc = "open"
    /\ shared.row.present
    /\ shared' = [shared EXCEPT !.row = NoRow, !.held = FALSE,
                                !.last = [op |-> "delete", by |-> who]]
    /\ UNCHANGED notShared

SharedNext ==
    \/ \E b \in Backends, tb \in 1..MaxTimeout, r \in BOOLEAN : OpenStore(b, tb, r)
    \/ SharedTick
    \/ \E who \in {"A", "B"} : SharedSet(who)
    \/ \E who \in {"A", "B"} : SharedGet(who)
    \/ \E who \in {"A", "B"} : SharedContains(who)
    \/ \E who \in {"A", "B"} : SharedDelete(who)

SpecSharedStore == SharedInit /\ [][SharedNext]_vars

\* C25: with cache_timeout = 0, set(k, r) succeeds on every back end and the
\* entry never expires: get(k) returns it at any later time until a delete or
\* a clear, also when a session with cache_timeout > 0 works on the same store
C25_ZeroTimeoutNeverExpires ==
    shared.pc = "open" =>
        /\ (shared.last.op = "set" /\ shared.last.by = "A") => ~shared.last.raised
        /\ (shared.last.op = "get" /\ shared.last.by = "A" /\ shared.last.held) =>
               shared.last.result = "A"

-----------------------------------------------------------------------------
(* Enumerating the entries of one back end shared by a cache and a limiter:
   keys(), values(), items().  An entry is named by its (namespace, key). *)

Enumerations == {"keys", "values", "items"}

\* MemoryPool.keys / values / items (key): the filter on CacheData
MemoryPoolEnumerate(items, key) ==
    CASE key = "all" -> items
      [] key = "cache" -> {i \in items : i.ns = "cache"}
      [] OTHER -> {i \in items : i.ns # "cache"}

\* key.endswith(suffix) for the keys _parse_key builds: a cache key ends in
\* ":cache", a limiter key in ":ratelimit"
EndsWith(i, suffix) == i.ns = suffix

\* RedisPool.keys(key): tuple(key for key in self._pool.keys() if
\* key.endswith(key)); inside the generator `key` is the key being tested,
\* which ends with itself. values and items go through keys
RedisPoolKeys(items, key) == {i \in items : EndsWith(i, i.ns)}

\* Cache.keys / values / items on each back end:
\*   memory: self._cache_conn.keys(), the pool's default key="all"
\*   redis:  the keys of the database that end with "cache"
\*   sqlite: SELECT ... FROM cache, the cache's own table
CacheEnumerate(b, items) ==
    CASE b = "memory" -> MemoryPoolEnumerate(items, "all")
      [] b = "redis" -> {i \in items : EndsWith(i, "cache")}
      [] b = "sqlite" -> {i \in items : i.ns = "cache"}

\* Ratelimit.keys / values / items: self._conn.keys("ratelimit") on memory,
\* self._pool.keys("ratelimit") otherwise
RatelimitEnumerate(b, items) ==
    CASE b = "memory" -> MemoryPoolEnumerate(items, "ratelimit")
      [] b = "redis" -> RedisPoolKeys(items, "ratelimit")

\* cache.keys() / values() / items()
EnumerateCache(what) ==
    /\ listed' = [called |-> TRUE, who |-> "cache", what |-> what,
                  returned |-> CacheEnumerate(backend, pool_items)]
    /\ UNCHANGED notListed

\* ratelimiter.keys() / values() / items(); SQLiteConnectionPool defines
\* none of the three, so the SQLite limiter is left out
EnumerateRatelimit(what) ==
    /\ backend # "sqlite"
    /\ listed' = [called |-> TRUE, who |-> "ratelimit", what |-> what,
                  returned |-> RatelimitEnumerate(backend, pool_items)]
    /\ UNCHANGED notListed

\* an entry is written between two enumerations
EnumPut(i) ==
    /\ i \notin pool_items
    /\ PutItem(i)

EnumNext ==
    \/ \E i \in Items : EnumPut(i)
    \/ \E what \in Enumerations : EnumerateCache(what)
    \/ \E what \in Enumerations : EnumerateRatelimit(what)

SpecEnumerate == NsInit /\ [][EnumNext]_vars

\* C26: when a cache and a limiter share one store, Cache.keys / values /
\* items return cache entries only and Ratelimit.keys / values / items return
\* rate-limit entries only
C26_EnumerationsStayInNamespace ==
    listed.called => \A i \in listed.returned : i.ns = listed.who

-----------------------------------------------------------------------------
(* A session on the SQLite back end, from construction to close: the limiter
   and the cache each take a connection of the calling thread's pool
   (Ratelimit.connect, Cache.connect) and give it back in _cleanup. *)

\* get_connection by thread t on the state st: the state after it and the
\* connection returned, 0 when it raises TimeoutError
GetConnection(st, t) ==
    LET pool == st.pools[PoolOf(t)]
    IN  IF pool.queue # <<>>
        THEN [st |-> [st EXCEPT !.pools[PoolOf(t)].queue = Tail(@),
                                !.connections[Head(pool.queue)].state = "held",
                                !.connections[Head(pool.queue)].holder = t],
              conn |-> Head(pool.queue)]
        ELSE IF pool.n_connections < pool.max_connections
        THEN [st |-> [st EXCEPT !.connections = Append(@, SQLiteConnection(t)),
                                !.n_connections[t] = @ + 1],
              conn |-> Len(st.connections) + 1]
        ELSE [st |-> st, conn |-> 0]

\* which of the two connects first: Session.__init__ builds the limiter,
\* then the cache; AsyncSession.__init__ the cache, then the limiter
FirstOf(k) == IF k = "sync" THEN "limiter" ELSE "cache"
SecondOf(k) == IF k = "sync" THEN "cache" ELSE "limiter"

OwnerInit == SqlInit

\* Session(backend="sqlite") / AsyncSession(backend="sqlite") on thread t
NewSqlSession(k, t) ==
    /\ owner.pc = "none"
    /\ owner' = [pc |-> "connect1", kind |-> k, t |-> t, limiter |-> 0, cache |-> 0]
    /\ UNCHANGED notOwner

\* connect: self._conn = self._pool.get_connection()
Connect ==
    /\ owner.pc \in {"connect1", "connect2"}
    /\ Len(connections) < MaxOpened
    /\ LET who == IF owner.pc = "connect1" THEN FirstOf(owner.kind) ELSE SecondOf(owner.kind)
           got_conn == GetConnection(SqlState, owner.t)
       IN  /\ SqlAfter(got_conn.st)
           /\ owner' = IF got_conn.conn = 0
                       THEN [owner EXCEPT !.pc = "failed"]
                       ELSE [owner EXCEPT ![who] = got_conn.conn,
                                          !.pc = IF owner.pc = "connect1"
                                                 THEN "connect2" ELSE "open"]
    /\ UNCHANGED <<blocked, handed>>
    /\ UNCHANGED <<sessVars, limVars, ttlVars, nsVars, cbVars, regVars>>
    /\ UNCHANGED notOwnerExt

\* Session._cleanup, first half: self._ratelimiter._cleanup(), which is
\* self._pool.release(self._conn); put on a full queue never returns
LimiterCleanup(expired) ==
    /\ owner.pc = "open"
    /\ owner.kind = "sync"
    /\ PoolOf(owner.t) \notin {expired[i] : i \in 1..Len(expired)}
    /\ IF PutBlocks(pools[PoolOf(owner.t)])
       THEN /\ blocked' = blocked \cup {owner.t}
            /\ owner' = [owner EXCEPT !.pc = "blocked"]
            /\ UNCHANGED <<pools, n_connections, connections>>
       ELSE /\ SqlAfter(CloseIdlePools(
                   [SqlState EXCEPT !.pools[PoolOf(owner.t)].queue = Append(@, owner.limiter),
                                    !.connections[owner.limiter].state = "idle"],
                   owner.t, expired))
            /\ owner' = [owner EXCEPT !.pc = "cleanup2"]
            /\ UNCHANGED blocked
    /\ UNCHANGED handed
    /\ UNCHANGED <<sessVars, limVars, ttlVars, nsVars, cbVars, regVars>>
    /\ UNCHANGED notOwnerExt

\* Session._cleanup, second half: self._cache._cleanup(), which is
\* release(self._conn, recycle=False) and close_current_pool(); then
\* self.close()
CacheCleanup(expired) ==
    /\ owner.pc = "cleanup2"
    /\ LET released == CloseIdlePools(
                           [SqlState EXCEPT !.connections[owner.cache].state = "closed",
                                            !.n_connections[owner.t] = @ - 1],
                           owner.t, expired)
           closed == IF released.raised THEN released
                     ELSE ClosePool(released, owner.t, PoolOf(owner.t))
       IN  /\ SqlAfter(closed)
           /\ owner' = [owner EXCEPT !.pc = IF closed.raised THEN "raised" ELSE "closed"]
    /\ UNCHANGED <<blocked, handed>>
    /\ UNCHANGED <<sessVars, limVars, ttlVars, nsVars, cbVars, regVars>>
    /\ UNCHANGED notOwnerExt

\* AsyncSession.__aexit__: await self._session.close(), nothing else
AsyncExit ==
    /\ owner.pc = "open"
    /\ owner.kind = "async"
    /\ owner' = [owner EXCEPT !.pc = "closed"]
    /\ UNCHANGED notOwner

\* the closed session is dropped; the next one may be built
OwnerGone ==
    /\ owner.pc \in {"closed", "failed", "raised"}
    /\ owner' = NoOwner
    /\ UNCHANGED notOwner

OwnerNext ==
    \/ \E k \in {"sync", "async"}, t \in Threads : NewSqlSession(k, t)
    \/ Connect
    \/ \E expired \in ExpiredOrders(Threads) : LimiterCleanup(expired)
    \/ \E expired \in ExpiredOrders(Threads) : CacheCleanup(expired)
    \/ AsyncExit
    \/ OwnerGone

SpecClose == OwnerInit /\ [][OwnerNext]_vars

\* the connections the session took that are still checked out
CheckedOut ==
    {c \in {owner.limiter, owner.cache} \ {0} : connections[c].state = "held"}

\* C27: once a session is closed, sync (_cleanup) or async (__aexit__), no
\* connection its cache or its limiter acquired remains checked out of the
\* pool
C27_ClosedHoldsNothing ==
    owner.pc = "closed" => CheckedOut = {}

-----------------------------------------------------------------------------
(* Cancellation of an AsyncSession.request suspended in the rate-limit wait:
   the task is parked in `await sleep(sleep_duration)` of increment_async,
   reached from the async wrapper of _ratelimit_decorator. *)

\* the request is suspended in the sleep of increment_async: ok(key) was
\* false, the sleep has been entered and has not returned
InRatelimitWait ==
    /\ kind = "async"
    /\ pc = "ratelimit"
    /\ events # <<>>
    /\ events[Len(events)] = "sleep"

\* where control goes when CancelledError is raised at the await: the loop
\* of increment_async, the ratelimit wrapper and the cache wrapper have no
\* try/except, so out of request; `self._count += 1` after the loop is
\* not reached
CancelledCaught == StageAfter(PlaceOf("ratelimit"))
Cancelled == "raised"

\* task.cancel() is delivered while the request waits
Cancel ==
    /\ InRatelimitWait
    /\ events' = Append(events, "cancelled")
    /\ pc' = Cancelled
    /\ UNCHANGED notSess
    /\ UNCHANGED <<kind, use_cache, use_ratelimit, raise_errors, rl_raise, cacheStore, req, resp, first>>

CancelNext ==
    \/ SessNext
    \/ Cancel

SpecCancel == SessInit /\ [][CancelNext]_vars

\* C28: an AsyncSession.request cancelled while suspended in the rate-limit
\* wait never invokes the transport, caches nothing, and no admission is
\* recorded or counted for it
C28_CancelledInWaitSendsNothing ==
    Has("cancelled") =>
        /\ ~Has("transport")
        /\ ~Has("store")
        /\ ~Has("admit")
        /\ pc \in {"raised", "idle"}
        /\ resp = NoResponse

\* a request that missed the cache, was denied, slept and was cancelled
C28_Witness ==
    /\ Has("cancelled")
    /\ Has("lookup")
    /\ pc = "raised"
    /\ cacheStore[req.url] = NoEntry

-----------------------------------------------------------------------------
(* MemoryPool.__getitem__ called by several threads on one pool object: the
   test of _time_to_check and its update are outside the lock, the sweep is
   inside. *)

IdleThread == [pc |-> "idle", now |-> 0]
LastTwo(s) == IF Len(s) > 2 THEN Tail(s) ELSE s

SweepInit ==
    /\ TtlInit
    /\ backend = "memory"

\* now = time.time(); the test `self._cache_timeout > 0 and
\* now >= self._time_to_check`
GetItemEnters(t) ==
    /\ sweeper.th[t].pc = "idle"
    /\ sweeper' = [sweeper EXCEPT
           !.th[t] = [pc |-> IF cache_timeout > 0 /\ now >= time_to_check
                             THEN "sweep" ELSE "lookup",
                      now |-> now]]
    /\ UNCHANGED ttlVars
    /\ UNCHANGED notSweeper

\* with self._lock: self._clear_my_expired_cache(now); swept notes the
\* clock at which the sweep runs
GetItemSweeps(t) ==
    /\ sweeper.th[t].pc = "sweep"
    /\ entries' = ClearMyExpiredCache(entries, sweeper.th[t].now)
    /\ sweeper' = [sweeper EXCEPT !.th[t].pc = "deadline",
                                  !.swept = LastTwo(Append(@, now))]
    /\ UNCHANGED <<backend, cache_timeout, check_frequency, renew, time_to_check, got>>
    /\ UNCHANGED notTtlSweeper

\* self._time_to_check = now + self._check_frequency
GetItemSetsDeadline(t) ==
    /\ sweeper.th[t].pc = "deadline"
    /\ time_to_check' = sweeper.th[t].now + check_frequency
    /\ sweeper' = [sweeper EXCEPT !.th[t].pc = "lookup"]
    /\ UNCHANGED <<backend, cache_timeout, check_frequency, renew, entries, got>>
    /\ UNCHANGED notTtlSweeper

\* self._cache.get(key), and __missing__ when it is None; k is the key
\* __getitem__ was called with
GetItemLooksUp(t, k) ==
    /\ sweeper.th[t].pc = "lookup"
    /\ entries' = IF entries[k] = AbsentEntry
                  THEN [entries EXCEPT ![k] = Default(k, now, "missing")]
                  ELSE entries
    /\ sweeper' = [sweeper EXCEPT !.th[t] = IdleThread]
    /\ UNCHANGED <<backend, cache_timeout, check_frequency, renew, time_to_check, got>>
    /\ UNCHANGED notTtlSweeper

\* the clock of this study stops at MaxSweepTime
SweepTick ==
    /\ now < MaxSweepTime
    /\ Tick

SweepNext ==
    \/ SweepTick
    \/ \E k \in CacheKeys, v \in Values : MemorySet(k, v)
    \/ \E t \in Threads : GetItemEnters(t)
    \/ \E t \in Threads : GetItemSweeps(t)
    \/ \E t \in Threads : GetItemSetsDeadline(t)
    \/ \E t \in Threads, k \in CacheKeys : GetItemLooksUp(t, k)

SpecSweep == SweepInit /\ [][SweepNext]_vars

\* C29: with cache_timeout > 0, two sweeps of one in-memory pool are at
\* least check_frequency apart, also when several threads reach
\* __getitem__ at the deadline: at most one sweep per period
C29_OneSweepPerPeriod ==
    (cache_timeout > 0 /\ Len(sweeper.swept) = 2) =>
        sweeper.swept[2] - sweeper.swept[1] >= check_frequency

\* thread t has just swept
JustSwept(t) ==
    /\ sweeper.th[t].pc = "sweep"
    /\ sweeper'.th[t].pc = "deadline"

\* C30: right after a sweep performed at time now, the shared mapping holds
\* no entry whose expiration is <= now, and every entry whose expiration
\* was > now is still there
C30_SweepRemovesExactlyExpired ==
    [][\A t \in Threads :
          JustSwept(t) =>
              \A k \in CacheKeys :
                  /\ entries'[k] # AbsentEntry
                        => entries'[k].expiration > sweeper.th[t].now
                  /\ (entries[k] # AbsentEntry /\ entries[k].expiration > sweeper.th[t].now)
                        => entries'[k] = entries[k]]_vars

-----------------------------------------------------------------------------
(* The shared dict MemoryPool._cache under operations of several threads.
   __setitem__, __delitem__ and the sweep of __getitem__ run inside
   `with self._lock`; clear takes no lock.  A rebuild (the dict
   comprehension of clear("cache"), clear("ratelimit") and of the sweep)
   reads the dict, builds a new one and assigns it: two steps. *)

Idle == [pc |-> "idle", lost |-> {}]

MappingInit == OldParked /\ ExtParked

\* what a set or delete of item i by another thread means to the threads
\* that are rebuilding: i was written (or removed) after they read
NoteSet(ths, t, i) ==
    [u \in Threads |->
        IF u # t /\ ths[u].pc = "built"
        THEN [ths[u] EXCEPT !.during = @ \cup {i}] ELSE ths[u]]
NoteGone(ths, t, gone) ==
    [u \in Threads |->
        IF u # t /\ ths[u].pc = "built"
        THEN [ths[u] EXCEPT !.during = @ \ gone] ELSE ths[u]]

\* the entries among items that the rebuild op does not filter out
Retained(op, items) ==
    IF op = "sweep" THEN items ELSE MemoryPoolClear(items, op).items

\* __setitem__: with self._lock: self._cache[key] = self._default(value)
MappingSet(t, i) ==
    /\ mapping.th[t].pc = "idle"
    /\ mapping.lock = 0
    /\ mapping' = [mapping EXCEPT !.dict = @ \cup {i},
                                  !.th = NoteSet([mapping.th EXCEPT ![t] = Idle], t, i)]
    /\ UNCHANGED notMapping

\* __delitem__: with self._lock: del self._cache[key]
MappingDelete(t, i) ==
    /\ mapping.th[t].pc = "idle"
    /\ mapping.lock = 0
    /\ i \in mapping.dict
    /\ mapping' = [mapping EXCEPT !.dict = @ \ {i},
                                  !.th = NoteGone([mapping.th EXCEPT ![t] = Idle], t, {i})]
    /\ UNCHANGED notMapping

\* clear("all"): cls._cache.clear(), one dict operation, no lock
MappingClearAll(t) ==
    /\ mapping.th[t].pc = "idle"
    /\ mapping.dict # {}
    /\ mapping' = [mapping EXCEPT !.dict = {},
                                  !.th = NoteGone([mapping.th EXCEPT ![t] = Idle], t, mapping.dict)]
    /\ UNCHANGED notMapping

\* clear(key), key "cache" or "ratelimit": the comprehension over
\* cls._cache.items() is evaluated, without the lock
MappingClearBuilds(t, key) ==
    /\ mapping.th[t].pc = "idle"
    /\ mapping' = [mapping EXCEPT !.th[t] =
           [pc |-> "built", op |-> key, locked |-> FALSE, during |-> {},
            new |-> MemoryPoolClear(mapping.dict, key).items]]
    /\ UNCHANGED notMapping

\* the sweep of __getitem__: with self._lock, the comprehension of
\* _clear_my_expired_cache is evaluated; expired are the entries it drops
MappingSweepBuilds(t, expired) ==
    /\ mapping.th[t].pc = "idle"
    /\ mapping.lock = 0
    /\ expired \subseteq mapping.dict
    /\ mapping' = [mapping EXCEPT !.lock = t, !.th[t] =
           [pc |-> "built", op |-> "sweep", locked |-> TRUE, during |-> {},
            new |-> mapping.dict \ expired]]
    /\ UNCHANGED notMapping

\* cls._cache = {...} / MemoryPool._cache = {...}: the new dict replaces
\* the shared one; the sweep then leaves the with block
MappingAssigns(t) ==
    /\ mapping.th[t].pc = "built"
    /\ LET me == mapping.th[t]
       IN  mapping' = [mapping EXCEPT
               !.dict = me.new,
               !.lock = IF me.locked THEN 0 ELSE @,
               !.th = NoteGone([mapping.th EXCEPT ![t] =
                                   [pc |-> "idle", lost |-> Retained(me.op, me.during) \ me.new]],
                               t, mapping.dict \ me.new)]
    /\ UNCHANGED notMapping

MappingNext ==
    \/ \E t \in Threads, i \in Items : MappingSet(t, i)
    \/ \E t \in Threads, i \in Items : MappingDelete(t, i)
    \/ \E t \in Threads : MappingClearAll(t)
    \/ \E t \in Threads, key \in Namespaces : MappingClearBuilds(t, key)
    \/ \E t \in Threads, expired \in SUBSET Items : MappingSweepBuilds(t, expired)
    \/ \E t \in Threads : MappingAssigns(t)

SpecMapping == MappingInit /\ [][MappingNext]_vars

\* C31: every operation on the shared mapping takes effect atomically under
\* the pool mutex: an entry whose set completed while a clear or a sweep
\* was rebuilding the mapping, and which nothing deleted since, is in the
\* mapping when the rebuild is done
C31_NoSetLost ==
    \A t \in Threads : mapping.th[t].pc = "idle" => mapping.th[t].lost = {}

-----------------------------------------------------------------------------
(* Further claims about the per-thread SQLite pool, checked under
   SpecSqlPool *)

\* a connection was taken off its queue and closed by a thread that did
\* not create it (close_pool run by the reaper of another thread's release)
OperatedByStranger == \E c \in ConnIds : connections[c].state = "lost"

\* the reaper popped the sub-pool and the count of a thread that still
\* holds a connection
DroppedWhileHeld ==
    \E u \in Threads : n_connections[u] < Cardinality(HeldBy(u))

\* C32: no SQLite connection is operated on by a thread other than its
\* owner: the reaper run by one thread's release, and close, neither close
\* a connection of another thread nor drop the sub-pool of a thread that
\* still holds a connection
C32_OnlyOwnerOperates ==
    /\ ~OperatedByStranger
    /\ ~DroppedWhileHeld

\* the connections thread t created that have not been closed
OpenOf(t) ==
    {c \in ConnIds : connections[c].thread_id = t /\ connections[c].state # "closed"}

\* C36: for every thread t, n_connections[t] is never negative and equals
\* the number of connections t created that have not been closed
C36_CountMatchesOpen ==
    \A t \in Threads :
        /\ n_connections[t] >= 0
        /\ n_connections[t] = Cardinality(OpenOf(t))

\* C37: release(conn, recycle=True) always returns: no thread is left
\* blocked in put on a full queue with the sub-pool lock held
C37_ReleaseReturns ==
    blocked = {}

-----------------------------------------------------------------------------
(* SQLiteCache's mutating operations on its connection.  sqlite3 opens a
   transaction at the first data-changing statement; `committed` is the table
   as other connections see it, `view` the table with the changes of the open
   transaction. *)

RowKeys == {"k1", "k2", "k3"}
NoRows == [k \in RowKeys |-> "absent"]
NoOp == [called |-> FALSE]

TxInit == OldParked /\ ExtParked

\* SQLiteCache(...): _create_tables, committed
OpenSqliteCache(timeout) ==
    /\ tx.pc = "none"
    /\ tx' = [pc |-> "open", cache_timeout |-> timeout, committed |-> NoRows,
              view |-> NoRows, last |-> NoOp]
    /\ UNCHANGED notTx

\* the clock passes the expiration of row k
RowExpires(k) ==
    /\ tx.pc = "open"
    /\ tx.cache_timeout
    /\ tx.view[k] = "live"
    /\ tx.committed[k] = "live"
    /\ tx' = [tx EXCEPT !.view[k] = "expired", !.committed[k] = "expired",
                        !.last = NoOp]
    /\ UNCHANGED notTx

\* cache_expiration_trigger: DELETE FROM cache WHERE expiration < now, when
\* cache_timeout is set
Trigger(rows) ==
    IF tx.cache_timeout
    THEN [k \in RowKeys |-> IF rows[k] = "expired" THEN "absent" ELSE rows[k]]
    ELSE rows

\* the commit decorator: func, then self._conn.commit(); when func raises,
\* the exception leaves the wrapper: neither commit nor rollback.  after is
\* the table as func left it
CommitWrapper(op, outcome, after) ==
    [tx EXCEPT !.view = after,
               !.committed = IF outcome = "ok" THEN after ELSE @,
               !.last = [called |-> TRUE, op |-> op, outcome |-> outcome]]

\* __setitem__: serialize, then INSERT OR REPLACE; outcome is "ok", or
\* where it raises
SqliteSetItem(k, outcome) ==
    /\ tx.pc = "open"
    /\ tx' = CommitWrapper("set", outcome,
                 IF outcome = "ok" THEN [tx.view EXCEPT ![k] = "live"] ELSE tx.view)
    /\ UNCHANGED notTx

\* __delitem__: the trigger, then key.endswith / DELETE ... WHERE key = ?
SqliteDelItem(k, outcome) ==
    /\ tx.pc = "open"
    /\ tx' = CommitWrapper("delete", outcome,
                 IF outcome = "ok" THEN [Trigger(tx.view) EXCEPT ![k] = "absent"]
                 ELSE Trigger(tx.view))
    /\ UNCHANGED notTx

\* clear: DELETE FROM cache
SqliteClear(outcome) ==
    /\ tx.pc = "open"
    /\ tx' = CommitWrapper("clear", outcome,
                 IF outcome = "ok" THEN NoRows ELSE tx.view)
    /\ UNCHANGED notTx

TxNext ==
    \/ \E timeout \in BOOLEAN : OpenSqliteCache(timeout)
    \/ \E k \in RowKeys : RowExpires(k)
    \/ \E k \in RowKeys, outcome \in {"ok", "serialize", "execute"} : SqliteSetItem(k, outcome)
    \/ \E k \in RowKeys, outcome \in {"ok", "key", "execute"} : SqliteDelItem(k, outcome)
    \/ \E outcome \in {"ok", "execute"} : SqliteClear(outcome)

SpecCommit == TxInit /\ [][TxNext]_vars

\* C33: a mutating SQLite cache operation that succeeded has committed its
\* change, one that failed has rolled it back: after either, no uncommitted
\* change is pending on the connection
C33_NothingPending ==
    (tx.pc = "open" /\ tx.last.called) => tx.view = tx.committed

-----------------------------------------------------------------------------
(* BaseSession.clear_cache / meta.clear_cache: the session's own clear *)

\* hasattr("self", "_cache"): the receiver is the string "self", which has
\* no attribute _cache
HasAttrSelfCache == FALSE

\* MemoryPool.clear(key) run with assert statements stripped (python -O):
\* a key outside ACCEPTED_KEYS matches no branch
MemoryPoolClearNoAssert(items, key) ==
    IF key \in ACCEPTED_KEYS THEN MemoryPoolClear(items, key)
    ELSE [raised |-> FALSE, items |-> items]

\* Ratelimit.clear as the interpreter runs it: asserts says whether assert
\* statements are executed
RatelimitClearBuilt(b, items, asserts) ==
    IF b = "memory" /\ ~asserts THEN MemoryPoolClearNoAssert(items, "cls")
    ELSE RatelimitClear(b, items)

\* clear_cache: the cache branch when the hasattr test passes, then the
\* limiter branch
ClearCacheOfSession(b, items, asserts) ==
    LET first_branch == IF HasAttrSelfCache THEN CacheClear(b, items)
                        ELSE [raised |-> FALSE, items |-> items]
    IN  IF first_branch.raised THEN first_branch
        ELSE RatelimitClearBuilt(b, first_branch.items, asserts)

SessionClearCache(asserts) ==
    /\ backend \in Backends
    /\ Clearing("clear_cache", ClearCacheOfSession(backend, pool_items, asserts))

SessionClearNext ==
    \/ \E i \in Items : PutItem(i)
    \/ \E asserts \in BOOLEAN : SessionClearCache(asserts)

SpecSessionClear == NsInit /\ [][SessionClearNext]_vars

\* C34: after session.clear_cache() returns, the session's cache holds no
\* entry (a request for a URL cached before goes to the transport) and the
\* limiter's state is cleared
C34_ClearCacheClears ==
    (JustCleared("clear_cache") /\ ~cleared.raised) =>
        /\ ItemsOf(pool_items, "cache") = {}
        /\ ItemsOf(pool_items, "ratelimit") = {}

(***************************************************************************)
(* Protected resources: backends/resources/protected.  The metaclass puts  *)
(* one Lock in the class; `with resource:` acquires it and releases it on  *)
(* exit; every method of the value is wrapped by the lock decorator, which *)
(* takes the lock only when locked() was false and otherwise calls the     *)
(* method at once.  lock is 0 when free, else the thread that acquired it. *)
(***************************************************************************)
MaxValue == 2

ListMethods == {"append", "clear"}

ProtectedInit == OldParked /\ ExtParked

\* __enter__: self.lock.acquire() blocks until the lock is free
Enter(t) ==
    /\ protected.th[t].pc = "idle"
    /\ ~protected.th[t].inside
    /\ protected.lock = 0
    /\ protected' = [protected EXCEPT !.lock = t, !.th[t].inside = TRUE]
    /\ UNCHANGED notProtected

\* __exit__: self.lock.release()
Exit(t) ==
    /\ protected.th[t].pc = "idle"
    /\ protected.th[t].inside
    /\ protected' = [protected EXCEPT !.lock = 0, !.th[t].inside = FALSE]
    /\ UNCHANGED notProtected

\* wrapper: `if not self.lock.locked()`; a held lock, whoever holds it,
\* sends the call straight to the method
WrapperTests(t, op) ==
    /\ protected.th[t].pc = "idle"
    /\ op = "append" => Len(protected.value) < MaxValue
    /\ protected' = [protected EXCEPT
           !.th[t].pc = IF protected.lock = 0 THEN "acquiring" ELSE "running",
           !.th[t].via = IF protected.lock = 0 THEN "lock" ELSE "bare",
           !.th[t].op = op]
    /\ UNCHANGED notProtected

\* wrapper: `with self.lock:` blocks until the lock is free
WrapperAcquires(t) ==
    /\ protected.th[t].pc = "acquiring"
    /\ protected.lock = 0
    /\ protected' = [protected EXCEPT !.lock = t, !.th[t].pc = "running"]
    /\ UNCHANGED notProtected

\* the method acts on self.value and returns; leaving `with self.lock`
\* releases the lock
MethodReturns(t) ==
    /\ protected.th[t].pc = "running"
    /\ protected' = [protected EXCEPT
           !.value = IF protected.th[t].op = "clear" THEN <<>>
                     ELSE IF Len(@) < MaxValue THEN Append(@, t) ELSE @,
           !.lock = IF protected.th[t].via = "lock" THEN 0 ELSE @,
           !.th[t].pc = "idle",
           !.th[t].via = "none",
           !.th[t].op = "none"]
    /\ UNCHANGED notProtected

ProtectedNext ==
    \/ \E t \in Threads : Enter(t)
    \/ \E t \in Threads : Exit(t)
    \/ \E t \in Threads, op \in ListMethods : WrapperTests(t, op)
    \/ \E t \in Threads : WrapperAcquires(t)
    \/ \E t \in Threads : MethodReturns(t)

SpecProtected == ProtectedInit /\ [][ProtectedNext]_vars

\* a thread is executing a wrapped method on the underlying value
OnValue(t) == protected.th[t].pc = "running"

\* C35: while one thread is inside `with resource:`, no other thread
\* executes a locked method on the value, and no two threads execute
\* locked methods at the same time.
C35_ProtectedExcludes ==
    \A a \in Threads : \A b \in Threads \ {a} :
        /\ protected.th[a].inside => ~OnValue(b)
        /\ ~(OnValue(a) /\ OnValue(b))

(***************************************************************************)
(* One headers mapping reused across calls.  request rebinds `headers` to  *)
(* the caller's own mapping when it is a dict / Headers / CIMultiDict and  *)
(* to a new dict otherwise, and headers["User-Agent"] = useragent() is an  *)
(* item assignment on that object.  useragent() supplies a new string on   *)
(* every call: the string of the n-th call is numbered n.                  *)
(*   given    the mapping as the caller built it                           *)
(*   headers  the caller's mapping now                                     *)
(*   wrote    the number of the call whose agent the mapping holds, or 0   *)
(***************************************************************************)
MaxCalls == 3

ReuseInit == OldParked /\ ExtParked

RandomAgent(n) == [src |-> "random", n |-> n]
CallAgent == [src |-> "call", n |-> 0]
SessionsAgent == [src |-> "session", n |-> 0]

\* Session(random_user_agents=, headers=) / AsyncSession(...), and the
\* mapping the caller will pass as headers=
NewReuseSession(k, random, custom, h) ==
    /\ reuse.pc = "none"
    /\ reuse' = [pc |-> "built", kind |-> k, random |-> random, custom |-> custom,
                 given |-> h, headers |-> h, wrote |-> 0, calls |-> 0,
                 injected |-> FALSE, sent |-> SessionsAgent]
    /\ UNCHANGED notReuse

\* request(url, method, headers=headers) up to the transport call: the state
\* after one call on state st
RequestOn(st) ==
    LET injected == Injects(st.kind, st.random, st.custom, st.headers)
        mine     == st.headers.type # "None"
        n        == st.calls + 1
    IN  [st EXCEPT
           !.pc = "sent",
           !.calls = n,
           !.injected = injected,
           !.headers = IF injected /\ mine
                       THEN [@ EXCEPT !.keys = @ \cup {"User-Agent"}]
                       ELSE @,
           !.wrote = IF injected /\ mine THEN n ELSE @,
           !.sent = IF injected THEN RandomAgent(n)
                    ELSE IF GivesAgent(st.headers)
                         THEN IF st.wrote # 0 THEN RandomAgent(st.wrote) ELSE CallAgent
                         ELSE SessionsAgent]

\* one request with the caller's mapping
ReuseRequest ==
    /\ reuse.pc # "none"
    /\ reuse.calls < MaxCalls
    /\ reuse' = RequestOn(reuse)
    /\ UNCHANGED notReuse

\* AsyncSession.requests(urls, headers=headers) with two urls: gather runs
\* request twice with the same headers object; neither call awaits between
\* its test and its assignment
ReuseRequests ==
    /\ reuse.pc # "none"
    /\ reuse.kind = "async"
    /\ reuse.calls + 2 <= MaxCalls
    /\ reuse' = RequestOn(RequestOn(reuse))
    /\ UNCHANGED notReuse

\* the session is closed
ReuseClose ==
    /\ reuse.pc = "sent"
    /\ reuse' = NoReuse
    /\ UNCHANGED notReuse

ReuseNext ==
    \/ \E k \in {"sync", "async"}, random \in BOOLEAN, custom \in BOOLEAN,
          h \in HeaderArgs : NewReuseSession(k, random, custom, h)
    \/ ReuseRequest
    \/ ReuseRequests
    \/ ReuseClose

SpecReuse == ReuseInit /\ [][ReuseNext]_vars

\* C38: request leaves the caller's headers mapping as the caller built it,
\* and a call whose mapping was built without a user-agent (random agents on,
\* session agent the transport default) sends the agent drawn for that call.
C38_CallerHeadersUnchanged ==
    reuse.pc = "sent" =>
        /\ reuse.headers = reuse.given
        /\ (reuse.random /\ ~reuse.custom /\ ~GivesAgent(reuse.given)) =>
               reuse.sent = RandomAgent(reuse.calls)

(***************************************************************************)
(* request and requests mixed on one Session created with ratelimit=True.  *)
(* Every limiter counts its admissions under its namespace, options.key,   *)
(* which is the caller's key= or, without one, ClassName-<Ratelimit.ID>,   *)
(* a number that grows with every limiter built.  The threaded requests    *)
(* builds a new AsyncSession, hence a new limiter, on every call.  All     *)
(* requests go to one url with one method, so the rest of the rate-limit   *)
(* key is the same for all.  Namespace 0 is the caller's key, n > 0 the    *)
(* default of the n-th limiter.                                            *)
(*   count     admissions of the current window under each namespace      *)
(*   admitted  admissions of the current window for the url               *)
(***************************************************************************)
MaxLimiters == 4
MixLimit == 2
LimiterKeys == 0..MaxLimiters

MixInit == OldParked /\ ExtParked

\* Ratelimit.__init__: Ratelimit.ID += 1; key or f"{ClassName}-{Ratelimit.ID}"
NamespaceOf(keyGiven, id) == IF keyGiven THEN 0 ELSE id

\* Session(ratelimit=True, threaded=, key=?): its limiter is the first built
NewMixSession(threaded, keyGiven) ==
    /\ mix.pc = "none"
    /\ mix' = [pc |-> "built", threaded |-> threaded, keyGiven |-> keyGiven,
               ID |-> 1, key |-> NamespaceOf(keyGiven, 1),
               count |-> [k \in LimiterKeys |-> 0], admitted |-> 0,
               via |-> "none"]
    /\ UNCHANGED notMix

\* ok(key): the admissions of the window under the key are below the limit
OkUnder(k) == mix.count[k] < MixLimit

\* n admissions under namespace k
Admit(st, k, n, via) ==
    [st EXCEPT !.count[k] = @ + n, !.admitted = @ + n, !.via = via]

\* Session.request: _ratelimit_decorator calls self._ratelimiter.increment,
\* which returns once ok(key) holds
MixRequest ==
    /\ mix.pc = "built"
    /\ OkUnder(mix.key)
    /\ mix' = Admit(mix, mix.key, 1, "request")
    /\ UNCHANGED notMix

\* Session.requests(urls) with n urls, threaded: a new AsyncSession(loop=,
\* backend=, **self.__kwargs) is built and its requests run there, each
\* through that session's limiter.  A call whose requests would have to wait
\* for the next window is taken after WindowEnds.
MixRequestsThreaded(n) ==
    /\ mix.pc = "built"
    /\ mix.threaded
    /\ mix.ID < MaxLimiters
    /\ LET k == NamespaceOf(mix.keyGiven, mix.ID + 1)
       IN  /\ mix.count[k] + n <= MixLimit
           /\ mix' = [Admit(mix, k, n, "requests") EXCEPT !.ID = @ + 1]
    /\ UNCHANGED notMix

\* Session.requests(urls) with n urls, not threaded: self.request is called
\* for each url in turn
MixRequestsSequential(n) ==
    /\ mix.pc = "built"
    /\ ~mix.threaded
    /\ mix.count[mix.key] + n <= MixLimit
    /\ mix' = Admit(mix, mix.key, n, "requests")
    /\ UNCHANGED notMix

\* the window has passed: the admissions counted so far no longer count
WindowEnds ==
    /\ mix.pc = "built"
    /\ mix.admitted > 0
    /\ mix' = [mix EXCEPT !.count = [k \in LimiterKeys |-> 0], !.admitted = 0,
                          !.via = "none"]
    /\ UNCHANGED notMix

\* the session is closed
MixClose ==
    /\ mix.pc = "built"
    /\ mix' = NoMix
    /\ UNCHANGED notMix

MixNext ==
    \/ \E threaded \in BOOLEAN, keyGiven \in BOOLEAN : NewMixSession(threaded, keyGiven)
    \/ MixRequest
    \/ \E n \in 1..MaxUrls : MixRequestsThreaded(n)
    \/ \E n \in 1..MaxUrls : MixRequestsSequential(n)
    \/ WindowEnds
    \/ MixClose

SpecMix == MixInit /\ [][MixNext]_vars

\* C39: whatever mix of request and requests calls a Session receives, the
\* admissions of one window for one key never exceed the limit.
C39_MixedCallsShareTheLimit ==
    mix.pc = "built" => mix.admitted <= MixLimit

(***************************************************************************)
(* Waiting for admission: the increment loop with raise_errors unset,      *)
(* `while not ok(key): sleep(sleep_duration)`, then the admission is       *)
(* written.  ok is the sorted-set test of backends.py: evict the scores up *)
(* to the edge, count the rest, compare with the limit.  Time has no end   *)
(* here, so each member is kept as its age in ticks (the clock minus its   *)
(* score), counted up to the window, where the eviction takes it.          *)
(*   members  ages of the admissions recorded under the key                *)
(*   left     ticks a sleeping caller has still to sleep                   *)
(*   got      admissions the caller has obtained, up to MaxGot             *)
(***************************************************************************)
WaitLimit == 1
WaitWindow == 2
SleepTicks == 1
MaxGot == 1

WaitInit == OldParked /\ ExtParked

\* increment(url, method) is called: the key is parsed, ok comes next
WaitEnter(c) ==
    /\ wait.th[c].pc = "idle"
    /\ wait' = [wait EXCEPT !.th[c].pc = "ok"]
    /\ UNCHANGED notWait

\* zremrangebyscore(key, 0, edge), edge = now - window
WaitOkEvict(c) ==
    /\ wait.th[c].pc = "ok"
    /\ wait' = [wait EXCEPT !.members = SelectSeq(@, LAMBDA age : age < WaitWindow),
                            !.th[c].pc = "zcard"]
    /\ UNCHANGED notWait

\* count = zcard(key); count < limit leaves the loop, otherwise sleep
WaitOkCount(c) ==
    /\ wait.th[c].pc = "zcard"
    /\ wait' = IF Len(wait.members) < WaitLimit
               THEN [wait EXCEPT !.th[c].pc = "zadd"]
               ELSE [wait EXCEPT !.th[c].pc = "sleep", !.th[c].left = SleepTicks]
    /\ UNCHANGED notWait

\* the sleep is over: ok is evaluated again
WaitWake(c) ==
    /\ wait.th[c].pc = "sleep"
    /\ wait.th[c].left = 0
    /\ wait' = [wait EXCEPT !.th[c].pc = "ok"]
    /\ UNCHANGED notWait

\* zadd(key, {ts: ts}) and increment returns: the caller is admitted
WaitRecord(c) ==
    /\ wait.th[c].pc = "zadd"
    /\ wait' = [wait EXCEPT !.members = Append(@, 0),
                            !.th[c].pc = "idle",
                            !.th[c].got = Min(@ + 1, MaxGot)]
    /\ UNCHANGED notWait

\* one tick passes: every member is one tick older, every sleeper has one
\* tick less to sleep
WaitTick ==
    /\ wait' = [wait EXCEPT
           !.members = [i \in 1..Len(@) |-> Min(@[i] + 1, WaitWindow)],
           !.th = [c \in Threads |-> [@[c] EXCEPT !.left = Max(@ - 1, 0)]]]
    /\ UNCHANGED notWait

WaitNext ==
    \/ \E c \in Threads : WaitEnter(c)
    \/ \E c \in Threads : WaitOkEvict(c)
    \/ \E c \in Threads : WaitOkCount(c)
    \/ \E c \in Threads : WaitWake(c)
    \/ \E c \in Threads : WaitRecord(c)
    \/ WaitTick

SpecWait == WaitInit /\ [][WaitNext]_vars

\* fair scheduling and advancing time: a caller inside increment that can
\* take its next step takes it, and the clock keeps ticking; nobody is
\* obliged to call increment
WaitFairness ==
    /\ WF_vars(WaitTick)
    /\ \A c \in Threads :
          /\ WF_vars(WaitOkEvict(c))
          /\ WF_vars(WaitOkCount(c))
          /\ WF_vars(WaitWake(c))
          /\ WF_vars(WaitRecord(c))

SpecWaitFair == SpecWait /\ WaitFairness

InIncrement(c) == wait.th[c].pc # "idle"

\* C40: with raise_errors unset, under fair scheduling and advancing time,
\* every caller that has entered increment eventually returns from it with
\* its admission recorded, whatever the other callers do.
C40_EveryCallerAdmitted ==
    \A c \in Threads : InIncrement(c) ~> ~InIncrement(c)

====
